---- MODULE Spec2Model ----
(***************************************************************************)
(* A model of the record emission pipeline of klog (log.go, logger.go):    *)
(* the hook+level gate, the pooled field buffers, lazy value resolution,   *)
(* the encoder and the writer, and the fatal/panic terminal actions.       *)
(*                                                                         *)
(* Spec       the emission pipeline of one logger configuration, driven    *)
(*            through Log handles, LLog handles and direct Logger.*f calls *)
(* SpecGate   the same pipeline under every logger configuration           *)
(* SpecExit   the same pipeline with the registered exit functions         *)
(* SpecDerive the derivation of logger configurations (WithField, WithHook)*)
(*            over Go slices that share their backing arrays               *)
(* SpecSafe   goroutines emitting through SafeWriter onto one sink         *)
(***************************************************************************)
EXTENDS Integers, Sequences, FiniteSets, TLC

VARIABLES
    logger,       \* the Logger value every handle is made from
    cleaners,     \* the registered exit functions (kv_logger_test.go:28)
    handles,      \* the Log / LLog values the program holds
    heap,         \* backing arrays of the pooled []Field buffers
    fieldPool,    \* how many times each backing array is in fieldPool
    builderPool,  \* the number of Builders in builderPool
    exited,       \* the process has called os.Exit
    last,         \* the operation executed last and what it did, in order
    loggers,      \* the Logger values derived by WithField / WithHook
    arrays,       \* backing arrays of the loggers' fields and hooks slices
    pc,           \* where each goroutine is in SafeWriter's Write
    mu,           \* SafeWriter's mutex: its holder, 0 when free
    sink,         \* what the wrapped Writer has received, in order
    written,      \* the records each goroutine has written
    fbPool,       \* the []Field slices in fbPool4 / 8 / 16 / 32, by capacity
    fbs,          \* the FieldBuilder values the program holds
    Levels,       \* the names of the levels, level.go:35-43
    originLogger, \* the logger GetDefaultLogger wraps: its place in loggers
    defaultLogger, \* the logger of the package functions: its place in loggers
    rotating,     \* a SizedRotatingFile and the files of its directory
    reopener,     \* the variables captured by ReopenWriter's closures
    closing       \* the frames of ioWriter.Close on the stack, -1 after a crash

pvars == <<logger, cleaners, handles, heap, fieldPool, builderPool, exited>>
dvars == <<loggers, arrays>>
svars == <<pc, mu, sink, written>>
fvars == <<fbPool, fbs>>
gvars == <<Levels, originLogger, defaultLogger>>
wvars == <<rotating, reopener, closing>>
vars == <<pvars, last, dvars, svars, fvars, gvars, wvars>>

-----------------------------------------------------------------------------
(* Levels, level.go:24-32 *)
LvlTrace == 0
LvlDebug == 10
LvlInfo  == 20
LvlWarn  == 30
LvlError == 40
LvlPanic == 50
LvlFatal == 60

(* FieldSize, log.go:25: the capacity of a []Field made by fieldPool.New *)
FieldSize == 16

(* Bounds of the model *)
MaxHooks    == 2   \* hooks of the logger
MaxCtx      == 1   \* context fields of the logger
MaxCall     == 1   \* call-site fields appended through one handle
MaxArgs     == 2   \* format arguments of one Msgf call
MaxCleaners == 2   \* registered exit functions
MaxLoggers  == 5   \* Logger values derived from New()
MaxGoroutines == 2 \* goroutines emitting through one SafeWriter
MaxRecords  == 2   \* records each goroutine emits
MaxSize     == 2   \* maxSize of the SizedRotatingFile, in bytes
MaxWrites   == 3   \* Write calls on the SizedRotatingFile
MaxOuts     == 3   \* writers wrapped by a MultiWriter / FailoverWriter
MaxFrames   == 3   \* stack frames a goroutine's stack has room for
MaxOpens    == 4   \* calls of ReopenWriter's factory

Handles == {1, 2}                 \* the variables holding a Log / LLog value
Bufs    == Handles                \* backing arrays alive at once: one per value
(* The predefined levels, level.go:24-32 *)
Predefined == {LvlTrace, LvlDebug, LvlInfo, LvlWarn, LvlError, LvlPanic, LvlFatal}

(* A name is the sequence of its characters; strings.ToUpper maps the
   lower-case letters to the upper-case ones and leaves the others *)
Lower == <<"a", "b", "c", "d", "e", "f", "g", "i", "k", "n", "o", "p", "r", "t", "u", "w">>
Upper == <<"A", "B", "C", "D", "E", "F", "G", "I", "K", "N", "O", "P", "R", "T", "U", "W">>
ToUpper(name) ==
    [i \in 1..Len(name) |->
        IF \E j \in 1..Len(Lower) : Lower[j] = name[i]
        THEN Upper[CHOOSE j \in 1..Len(Lower) : Lower[j] = name[i]]
        ELSE name[i]]

(* The package's variables: Levels, level.go:35-43, and the two default
   loggers, which init sets by SetDefaultLogger(New("")), part_013:34-37 *)
InitGlobals ==
    /\ originLogger = 0
    /\ defaultLogger = 0
    /\ Levels = (LvlTrace :> <<"T", "R", "A", "C", "E">>) @@ (LvlDebug :> <<"D", "E", "B", "U", "G">>)
                @@ (LvlInfo :> <<"I", "N", "F", "O">>) @@ (LvlWarn :> <<"W", "A", "R", "N">>)
                @@ (LvlError :> <<"E", "R", "R", "O", "R">>) @@ (LvlPanic :> <<"P", "A", "N", "I", "C">>)
                @@ (LvlFatal :> <<"F", "A", "T", "A", "L">>)

(* The four pools of FieldBuilder slices, by the capacity their New makes,
   field.go:79-82 *)
FBPools == {4, 8, 16, 32}
PoolCap == Cardinality(Handles)   \* copies of one array fieldPool may hold

Names        == {"", "debugmod"}
LoggerLevels == {LvlDebug, LvlWarn}
LogLevels    == {LvlInfo, LvlWarn, LvlPanic, LvlFatal}
CtxFields    == {[Key |-> "caller", Value |-> "Valuer"]}
CallFields   == {[Key |-> "stack", Value |-> "Valuer"]}
CleanerSet   == {"nil", "clean1", "clean2"}

SeqsUpTo(S, n) == UNION {[1..k -> S] : k \in 0..n}

-----------------------------------------------------------------------------
(* hook.go *)
DisableLogger(names) == [kind |-> "DisableLogger", names |-> names]
EnableLogger(names)  == [kind |-> "EnableLogger", names |-> names]
HookSet == {DisableLogger({"debugmod"}), EnableLogger({"debugmod"})}

(* DisableLogger and EnableLogger with their results exchanged *)
HookExchanged(hook, name, level) ==
    IF hook.kind = "DisableLogger" THEN name \in hook.names
    ELSE name \notin hook.names

(* Hook: the call hook(name, level), hook.go:25-44 *)
Hook(hook, name, level) ==
    IF hook.kind = "DisableLogger" THEN name \notin hook.names
    ELSE name \in hook.names

(* IsEnabled with the threshold level itself excluded *)
IsEnabledStrict(l, lvl) == lvl > l.level

(* Logger.IsEnabled, logger.go:114-116 *)
IsEnabled(l, lvl) == lvl >= l.level

(* New with the most verbose level as the default *)
NewVerbose == [name |-> "", depth |-> 0, level |-> LvlTrace, writer |-> "Stdout",
               encoder |-> "TextEncoder", fields |-> <<>>, hooks |-> <<>>]

(* New, logger.go:54-60 *)
New == [name |-> "", depth |-> 0, level |-> LvlDebug, writer |-> "Stdout",
        encoder |-> "TextEncoder", fields |-> <<>>, hooks |-> <<>>]

(* The configurations New().WithName(n).WithLevel(v).WithHook(..).WithField(..)
   reaches, logger.go:135-248 *)
Configs ==
    {[New EXCEPT !.name = n, !.level = v, !.hooks = hs, !.fields = fs] :
        n \in Names, v \in LoggerLevels,
        hs \in SeqsUpTo(HookSet, MaxHooks), fs \in SeqsUpTo(CtxFields, MaxCtx)}

-----------------------------------------------------------------------------
(* Events of one operation, in the order the code performs them *)
Ev(e, x) == <<e, x>>
Has(evs, e) == \E i \in 1..Len(evs) : evs[i][1] = e
Count(evs, e) == Cardinality({i \in 1..Len(evs) : evs[i][1] = e})
First(evs, e) == CHOOSE i \in 1..Len(evs) : evs[i][1] = e /\ \A j \in 1..(i-1) : evs[j][1] # e
Picks(evs, e) == {evs[i][2] : i \in {j \in 1..Len(evs) : evs[j][1] = e}}

RECURSIVE KeepEv(_, _)
KeepEv(evs, e) ==
    IF evs = <<>> THEN <<>>
    ELSE (IF Head(evs)[1] = e THEN <<Head(evs)>> ELSE <<>>) \o KeepEv(Tail(evs), e)

(* The payloads of the events e of evs, in order *)
SelectEv(evs, e) == [i \in 1..Len(KeepEv(evs, e)) |-> KeepEv(evs, e)[i][2]]

-----------------------------------------------------------------------------
(* Go slices of the pooled buffers: a slice is a backing array and a length;
   heap[a] holds the cells of array a written so far (its capacity is
   FieldSize). *)
NoHandle == [shape |-> "none", level |-> 0, depth |-> 0, ok |-> FALSE, arr |-> 0, len |-> 0,
             app |-> <<>>]

Slice(hp, h) == IF h.arr = 0 THEN <<>> ELSE SubSeq(hp[h.arr], 1, h.len)

(* append(s, fs...) within the capacity: the cells after len(s) are overwritten *)
WriteAt(cells, n, fs) ==
    SubSeq(cells, 1, n) \o fs \o SubSeq(cells, n + Len(fs) + 1, Len(cells))

Referenced(hs, pool, b) == pool[b] > 0 \/ \E h \in DOMAIN hs : hs[h].arr = b

(* What of the arrays the program can still read: the cells of array b up to
   the longest slice a handle holds on it. A cell past every slice is written
   by append before any slice reaches it, and an array no handle refers to is
   either garbage or waits in the pool to be sliced to [:0]. *)
MaxOf(S) == IF S = {} THEN 0 ELSE CHOOSE n \in S : \A m \in S : m <= n
Reach(hs, b) == MaxOf({hs[h].len : h \in {x \in DOMAIN hs : hs[x].arr = b}})
Collect(hp, hs, pool) == [b \in Bufs |-> SubSeq(hp[b], 1, Reach(hs, b))]

(* fieldPool.Get(), log.go:32: an array of the pool, or a new one from New *)
FreeBufs == {b \in Bufs : ~Referenced(handles, fieldPool, b)}
GetChoices ==
    {b \in Bufs : fieldPool[b] > 0}
    \cup (IF FreeBufs = {} THEN {} ELSE {CHOOSE b \in FreeBufs : \A c \in FreeBufs : b <= c})
(* a Get that hands an array out and leaves it in the pool *)
PoolAfterPeek(pool, b) == pool
PoolAfterGet(pool, b) == IF pool[b] > 0 THEN [pool EXCEPT ![b] = @ - 1] ELSE pool

(* fieldPool.Put(fields[:0]), log.go:195 *)
PoolAfterPut(pool, b) == [pool EXCEPT ![b] = @ + 1]

-----------------------------------------------------------------------------
(* The gate of newLog, log.go:59-67: every hook is called, then the level *)
HookEvents(l, level) == [i \in 1..Len(l.hooks) |-> Ev("hook", i)]
(* HooksOK where each hook assigns ok instead of clearing it: the last decides *)
HooksLast(l, level) ==
    Len(l.hooks) = 0 \/ Hook(l.hooks[Len(l.hooks)], l.name, level)

HooksOK(l, level) == \A i \in 1..Len(l.hooks) : Hook(l.hooks[i], l.name, level)
GateLog(l, level) == HooksOK(l, level) /\ IsEnabled(l, level)

(* TextEncoder, encoder.go:36-71: the bytes of a record, as tokens *)
TextEncoder(r) ==
    <<"t=">> \o (IF r.Name # "" THEN <<"logger=" , r.Name>> ELSE <<>>)
    \o <<"lvl=", ToString(r.Level)>>
    \o [i \in 1..(2 * Len(r.Fields)) |->
          IF i % 2 = 1 THEN r.Fields[(i + 1) \div 2].Key ELSE r.Fields[i \div 2].Value]
    \o <<"msg=", r.Msg, "\n">>

(* NothingEncoder, encoder.go:29: nothing is put into the builder *)
NothingEncoder(r) == <<>>

Encode(encoder, r) == IF encoder = "TextEncoder" THEN TextEncoder(r) ELSE NothingEncoder(r)

(* Writer.Write(level, bs), writer.go: the Writer "Failing" returns an error *)
WriterWrite(w, level, bs) ==
    IF w = "Failing" THEN [n |-> 0, err |-> TRUE] ELSE [n |-> Len(bs), err |-> FALSE]

(* The lazy values of emitLog, log.go:181-188: a Valuer is replaced, in the
   backing array, by the value it returns *)
Resolve(fs) == [i \in 1..Len(fs) |->
                  IF fs[i].Value = "Valuer" THEN [fs[i] EXCEPT !.Value = "called"] ELSE fs[i]]
ResolveEvents(fs) == KeepEv([i \in 1..Len(fs) |->
                  IF fs[i].Value = "Valuer" THEN Ev("valuer", i) ELSE Ev("skip", i)], "valuer")

(* ExitEvents with the cleaners run like deferred calls, the last one first *)
ExitEventsReversed(cs) ==
    KeepEv([i \in 1..Len(cs) |->
              IF cs[Len(cs) + 1 - i] # "nil" THEN Ev("clean", cs[Len(cs) + 1 - i])
              ELSE Ev("skip", i)], "clean")
    \o <<Ev("exit", 1)>>

(* exit, log.go:198-199 with logger_test.go:293-299: the cleaners, then
   os.Exit.  The loop has no recover: a cleaner that panics ("boom") ends it,
   and the panic leaves emitLog before os.Exit is reached *)
ExitEvents(cs) ==
    LET booms == {i \in 1..Len(cs) : cs[i] = "boom"}
        k == IF booms = {} THEN Len(cs) ELSE CHOOSE i \in booms : \A j \in booms : i <= j
    IN  KeepEv([i \in 1..k |->
                  IF cs[i] # "nil" THEN Ev("clean", cs[i]) ELSE Ev("skip", i)], "clean")
        \o (IF booms = {} THEN <<Ev("exit", 1)>> ELSE <<Ev("cleanPanic", k)>>)

(* The record panic is called with, were its Fields left as they are *)
PanicRecordKept(r) == r

(* record.Fields = nil; panic(record), log.go:201-202: a nil slice has no
   element and no backing array *)
PanicRecord(r) == [r EXCEPT !.Fields = <<>>]

(* The terminal action of emitLog, log.go:198-203, for the record r *)
Terminal(r, cs) ==
    IF r.Level >= LvlFatal THEN ExitEvents(cs)
    ELSE IF r.Level >= LvlPanic THEN <<Ev("panic", PanicRecord(r))>>
    ELSE <<>>

(* The buffers go back to their pools only when Write reports no error *)
ReleaseUnlessError(res) ==
    IF res.err THEN <<>> ELSE <<Ev("putField", 1), Ev("putBuilder", 1)>>

(* fieldPool.Put(fields[:0]); putBuilder(buf), log.go:195-196, after a Write
   that returned res *)
PutBuffers(res) == <<Ev("putField", 1), Ev("putBuilder", 1)>>

(* The Writer is called whatever the builder holds *)
WriteAlways(bs) == TRUE

(* if bs := buf.Bytes(); len(bs) > 0, log.go:192 *)
WriteNeeded(bs) == Len(bs) > 0

(* emitLog, log.go:171-206, on the slice (arr, len): the events, in order *)
Record(l, level, depth, msg, fs) ==
    [Msg |-> msg, Time |-> "now", Name |-> l.name, Level |-> level, Depth |-> depth + 3,
     Fields |-> fs]

EmitEvents(l, level, depth, msg, fs, cs) ==
    LET r == Record(l, level, depth, msg, Resolve(fs))
        bs == Encode(l.encoder, r)
        res == IF WriteNeeded(bs) THEN WriterWrite(l.writer, level, bs)
               ELSE [n |-> 0, err |-> FALSE]
    IN  ResolveEvents(fs)
        \o <<Ev("getBuilder", 1), Ev("encode", r)>>
        \o (IF WriteNeeded(bs) THEN <<Ev("write", level)>> ELSE <<>>)
        \o PutBuffers(res)
        \o Terminal(r, cs)
        \o (IF level < LvlPanic THEN <<Ev("return", res)>> ELSE <<>>)

(* The state emitLog leaves: the resolved cells, the array back in the pool *)
HeapAfterEmit(hp, arr, len) ==
    [hp EXCEPT ![arr] = WriteAt(@, 0, Resolve(SubSeq(@, 1, len)))]
BuilderAfterEmit(n) == IF n = 0 THEN 1 ELSE n

-----------------------------------------------------------------------------
(* SizedRotatingFile, writer.go:311-449, and the files of its directory:
   files[0] is the log file filename, files[i] the backup filename.i. A file
   holds the data written to it, each a pair of the number of the Write call
   and its length. *)
BackupCounts == {1, 2}
FileIdx == 0..(MaxOf(BackupCounts) + 1)
NoFile == [exists |-> FALSE, data |-> <<>>]
EmptyFile == [exists |-> TRUE, data |-> <<>>]

RECURSIVE FileSize(_)
FileSize(data) == IF data = <<>> THEN 0 ELSE Head(data)[2] + FileSize(Tail(data))

(* open, writer.go:385-399: os.OpenFile with O_CREATE | O_APPEND makes the
   file when it is missing; nbytes is its size *)
Open(f) ==
    LET fs == IF f.files[0].exists THEN f.files ELSE [f.files EXCEPT ![0] = EmptyFile]
    IN  [f EXCEPT !.files = fs, !.nbytes = FileSize(fs[0].data), !.file = "open"]

(* NewSizedRotatingFile, writer.go:316-335, in a directory that holds the log
   file with the data live, or no file when live is empty *)
NewSizedRotatingFile(size, count, live) ==
    Open([file |-> "nil", nbytes |-> 0, maxSize |-> size, backupCount |-> count,
          closed |-> FALSE, writes |-> 0,
          files |-> [i \in FileIdx |-> IF i = 0 /\ live # <<>>
                                       THEN [exists |-> TRUE, data |-> live] ELSE NoFile]])

(* close, writer.go:401-405 *)
CloseFile(f) == [f EXCEPT !.file = "nil"]

(* ranges, writer.go:469-485, for a step that is not 0 *)
RECURSIVE ranges(_, _, _)
ranges(start, stop, step) ==
    IF step > 0 THEN (IF start < stop THEN <<start>> \o ranges(start + step, stop, step) ELSE <<>>)
    ELSE (IF start > stop THEN <<start>> \o ranges(start + step, stop, step) ELSE <<>>)

(* The loop of doRollover, writer.go:421-433: filename.i becomes
   filename.(i+1), which is removed first when it exists *)
RECURSIVE RenameBackups(_, _)
RenameBackups(fs, is) ==
    IF is = <<>> THEN fs
    ELSE RenameBackups(IF fs[Head(is)].exists
                       THEN [fs EXCEPT ![Head(is) + 1] = fs[Head(is)], ![Head(is)] = NoFile]
                       ELSE fs,
                       Tail(is))

(* doRollover, writer.go:407-449, with file operations that succeed: the file
   is closed; when the log file is missing or empty the function returns nil
   there; otherwise the backups and the log file are renamed and the log file
   is opened again *)
doRollover(f) ==
    IF f.backupCount > 0
    THEN LET c == CloseFile(f) IN
         IF ~c.files[0].exists \/ FileSize(c.files[0].data) = 0 THEN c
         ELSE LET fs == RenameBackups(c.files, ranges(c.backupCount - 1, 0, 0 - 1))
              IN  Open([c EXCEPT !.files = [fs EXCEPT ![1] = fs[0], ![0] = NoFile]])
    ELSE f

(* ReopenWriter(factory), writer.go:168-172: w and reopen are nil; closed
   tells that Close was called, opens counts the calls of factory *)
NewReopenWriter == [w |-> 0, reopen |-> "nil", closed |-> FALSE, opens |-> 0]

(* The writers of writer.go before their first call: a SizedRotatingFile on a
   new file, ReopenWriter's closures with w and reopen nil (writer.go:169-172),
   and no call of ioWriter.Close in progress *)
InitWriters ==
    /\ rotating = NewSizedRotatingFile(MaxSize, 1, <<>>)
    /\ reopener = NewReopenWriter
    /\ closing = 0

(* The configurations with no hook, the name "" and the level WARN *)
BaseConfigs == {c \in Configs : c.hooks = <<>> /\ c.name = "" /\ c.level = LvlWarn}

InitWith(configs) ==
    /\ logger \in configs
    /\ cleaners = <<>>
    /\ handles = [h \in Handles |-> NoHandle]
    /\ heap = [b \in Bufs |-> <<>>]
    /\ fieldPool = [b \in Bufs |-> 0]
    /\ builderPool = 0
    /\ exited = FALSE
    /\ last = [op |-> "New", h |-> 0, level |-> 0, pooled |-> FALSE, ev |-> <<>>]
    /\ loggers = <<>>
    /\ arrays = <<>>
    /\ pc = <<>>
    /\ mu = 0
    /\ sink = <<>>
    /\ written = <<>>
    /\ fbPool = [k \in FBPools |-> <<>>]
    /\ fbs = <<>>
    /\ InitGlobals
    /\ InitWriters

(* What the operation did: op on handle h at level level, its events in
   order; pooled tells that the slice it read or wrote was in fieldPool then *)
Done(op, h, level, pooled, evs) ==
    /\ last' = [op |-> op, h |-> h, level |-> level, pooled |-> pooled, ev |-> evs]
    /\ UNCHANGED <<dvars, svars, fvars, gvars, wvars>>

(* The variable a new Log / LLog value is stored in: the first free one *)
FreeSlot(h) == handles[h] = NoHandle /\ \A x \in Handles : x < h => handles[x] # NoHandle

(* AppendCleaner, kv_logger_test.go:32-34 *)
AppendCleaner(c) ==
    /\ ~exited
    /\ Len(cleaners) < MaxCleaners
    /\ cleaners' = Append(cleaners, c)
    /\ Done("AppendCleaner", 0, 0, FALSE, <<>>)
    /\ UNCHANGED <<logger, handles, heap, fieldPool, builderPool, exited>>

(* newLog as it was, part_010:50-66: a buffer is taken when the gate passes
   or the logger has context fields *)
newLogOld(l, level, depth, b) ==
    [shape |-> "Log", level |-> level, depth |-> depth, ok |-> GateLog(l, level),
     arr |-> IF GateLog(l, level) \/ Len(l.fields) > 0 THEN b ELSE 0,
     len |-> IF GateLog(l, level) \/ Len(l.fields) > 0 THEN Len(l.fields) ELSE 0,
     app |-> <<>>]

(* newLog, log.go:58-74: the Log value, on array b when the gate passes *)
newLog(l, level, depth, b) ==
    [shape |-> "Log", level |-> level, depth |-> depth, ok |-> GateLog(l, level),
     arr |-> IF GateLog(l, level) THEN b ELSE 0,
     len |-> IF GateLog(l, level) THEN Len(l.fields) ELSE 0,
     app |-> <<>>]

(* Log.F, log.go:103-108: the Log value after F(fs...) *)
LogAppend(l, fs) == IF l.ok THEN [l EXCEPT !.len = @ + Len(fs), !.app = @ \o fs] ELSE l

(* Logger.Level(level, fs...) / L / Trace / ... / Fatal, logger.go:303-353:
   newLog(l, level, l.depth).F(fs...) *)
LoggerLevel(h, level, fs, b) ==
    /\ ~exited
    /\ FreeSlot(h)
    /\ LET l0 == newLog(logger, level, logger.depth, b)
           l1 == LogAppend(l0, fs)
       IN  /\ handles' = [handles EXCEPT ![h] = l1]
           /\ fieldPool' = IF l0.arr # 0 THEN PoolAfterGet(fieldPool, b) ELSE fieldPool
           /\ heap' = IF l0.arr # 0
                      THEN Collect([heap EXCEPT ![b] = WriteAt(@, 0, SubSeq(logger.fields \o fs, 1, l1.len))],
                                   handles', fieldPool')
                      ELSE heap
           /\ Done("Level", h, level, FALSE,
                   HookEvents(logger, level) \o (IF l0.arr # 0 THEN <<Ev("getField", b)>> ELSE <<>>))
    /\ UNCHANGED <<logger, cleaners, builderPool, exited>>

(* Log.F / K / E / V, log.go:83-108 *)
LogF(h, fs) ==
    /\ ~exited
    /\ handles[h].shape = "Log"
    /\ LET l == handles[h]
           l1 == LogAppend(l, fs)
       IN  /\ l1.len <= Len(logger.fields) + MaxCall
           /\ handles' = [handles EXCEPT ![h] = l1]
           /\ heap' = IF l1.len > l.len
                      THEN Collect([heap EXCEPT ![l.arr] = WriteAt(@, l.len, fs)], handles', fieldPool)
                      ELSE heap
           /\ Done("F", h, l.level, l.arr # 0 /\ fieldPool[l.arr] > 0,
                   IF l1.len > l.len THEN <<Ev("append", l.arr)>> ELSE <<>>)
    /\ UNCHANGED <<logger, cleaners, fieldPool, builderPool, exited>>

(* Log.Msg / Msgf / Print / Printf / Ef, log.go:111-167 *)
LogMsg(h, msg) ==
    /\ ~exited
    /\ handles[h].shape = "Log"
    /\ LET l == handles[h] IN
       IF l.ok
       THEN /\ fieldPool[l.arr] < PoolCap
            /\ LET evs == EmitEvents(logger, l.level, l.depth, msg, Slice(heap, l), cleaners) IN
               /\ heap' = HeapAfterEmit(heap, l.arr, l.len)
               /\ fieldPool' = IF Has(evs, "putField") THEN PoolAfterPut(fieldPool, l.arr)
                               ELSE fieldPool
               /\ builderPool' = IF Has(evs, "putBuilder") THEN BuilderAfterEmit(builderPool)
                                 ELSE builderPool
               /\ exited' = Has(evs, "exit")
               /\ Done("Msg", h, l.level, fieldPool[l.arr] > 0, evs)
       ELSE /\ UNCHANGED <<heap, fieldPool, builderPool, exited>>
            /\ Done("Msg", h, l.level, FALSE, <<>>)
    /\ UNCHANGED <<logger, cleaners, handles>>

(* Log.emit, part_010:129-156: one record from the fields fs of the handle,
   resolved, encoded, written, and the buffers put back *)
LogEmit(l, level, depth, msg, fs) ==
    LET r == [Msg |-> msg, Time |-> "now", Name |-> l.name, Level |-> level,
              Depth |-> depth + 2, Fields |-> Resolve(fs)]
        bs == Encode(l.encoder, r)
    IN  ResolveEvents(fs)
        \o <<Ev("getBuilder", 1), Ev("encode", r)>>
        \o (IF Len(bs) > 0 THEN <<Ev("write", level)>> ELSE <<>>)
        \o <<Ev("putField", 1), Ev("putBuilder", 1)>>

(* Log.Msgf, part_010:116-127 (logger_test.go:251-260), called with nargs
   format arguments: with none, l.emit(format) is followed by no return and
   l.emit(fmt.Sprintf(format)) runs after it on the resolved fields *)
LogMsgf(h, format, nargs) ==
    /\ ~exited
    /\ handles[h].shape = "Log"
    /\ LET l == handles[h] IN
       IF l.ok
       THEN LET fs == Slice(heap, l)
                first == IF nargs = 0 THEN LogEmit(logger, l.level, l.depth, format, fs)
                         ELSE <<>>
                evs == first \o LogEmit(logger, l.level, l.depth, format, Resolve(fs))
            IN  /\ fieldPool[l.arr] + Count(evs, "putField") <= PoolCap
                /\ heap' = HeapAfterEmit(heap, l.arr, l.len)
                /\ fieldPool' = [fieldPool EXCEPT ![l.arr] = @ + Count(evs, "putField")]
                /\ builderPool' = BuilderAfterEmit(builderPool)
                /\ Done("Msgf", h, l.level, fieldPool[l.arr] > 0, evs)
       ELSE /\ UNCHANGED <<heap, fieldPool, builderPool>>
            /\ Done("Msgf", h, l.level, FALSE, <<>>)
    /\ UNCHANGED <<logger, cleaners, handles, exited>>

(* newLLog, log.go:239-243: the LLog value, on array b *)
newLLog(l, depth, b, fs) ==
    [shape |-> "LLog", level |-> 0, depth |-> depth, ok |-> TRUE,
     arr |-> b, len |-> Len(l.fields) + Len(fs), app |-> fs]

(* Logger.F / K / E / V, logger.go:360-390: newLLog(l, l.depth, fs...) *)
LoggerF(h, fs, b) ==
    /\ ~exited
    /\ FreeSlot(h)
    /\ handles' = [handles EXCEPT ![h] = newLLog(logger, logger.depth, b, fs)]
    /\ fieldPool' = PoolAfterGet(fieldPool, b)
    /\ heap' = Collect([heap EXCEPT ![b] = WriteAt(@, 0, logger.fields \o fs)], handles', fieldPool')
    /\ Done("LF", h, 0, FALSE, <<Ev("getField", b)>>)
    /\ UNCHANGED <<logger, cleaners, builderPool, exited>>

(* LLog.F / K / E / V, log.go:257-278 *)
LLogF(h, fs) ==
    /\ ~exited
    /\ handles[h].shape = "LLog"
    /\ LET l == handles[h] IN
       /\ l.len + Len(fs) <= Len(logger.fields) + MaxCall
       /\ handles' = [handles EXCEPT ![h].len = @ + Len(fs), ![h].app = @ \o fs]
       /\ heap' = Collect([heap EXCEPT ![l.arr] = WriteAt(@, l.len, fs)], handles', fieldPool)
       /\ Done("LLF", h, 0, fieldPool[l.arr] > 0, <<Ev("append", l.arr)>>)
    /\ UNCHANGED <<logger, cleaners, fieldPool, builderPool, exited>>

(* The gate of LLog.emit without its hook loop *)
GateLLogLevelOnly(l, level) == IsEnabled(l, level)

(* The gate of LLog.emit, log.go:211-223: the level, then every hook *)
LLogGateEvents(l, level) == IF IsEnabled(l, level) THEN HookEvents(l, level) ELSE <<>>
GateLLog(l, level) == IsEnabled(l, level) /\ HooksOK(l, level)

(* LLog.emit, log.go:210-230: LLog.Levelf / Tracef / ... / Fatalf / Ef *)
LLogLevelf(h, level, msg) ==
    /\ ~exited
    /\ handles[h].shape = "LLog"
    /\ LET l == handles[h] IN
       IF GateLLog(logger, level)
       THEN /\ fieldPool[l.arr] < PoolCap
            /\ LET evs == LLogGateEvents(logger, level)
                          \o EmitEvents(logger, level, l.depth, msg, Slice(heap, l), cleaners) IN
               /\ heap' = HeapAfterEmit(heap, l.arr, l.len)
               /\ fieldPool' = IF Has(evs, "putField") THEN PoolAfterPut(fieldPool, l.arr)
                               ELSE fieldPool
               /\ builderPool' = IF Has(evs, "putBuilder") THEN BuilderAfterEmit(builderPool)
                                 ELSE builderPool
               /\ exited' = Has(evs, "exit")
               /\ Done("Levelf", h, level, fieldPool[l.arr] > 0, evs)
       ELSE /\ UNCHANGED <<heap, fieldPool, builderPool, exited>>
            /\ Done("Levelf", h, level, FALSE, LLogGateEvents(logger, level))
    /\ UNCHANGED <<logger, cleaners, handles>>

(* Logger.Levelf / Tracef / ... / Fatalf, logger.go:393-434:
   newLLog(l, l.depth+1).Levelf(level, msg): the LLog value is a temporary *)
LoggerLevelf(level, msg, b) ==
    /\ ~exited
    /\ LET l == newLLog(logger, logger.depth + 1, b, <<>>)
           gate == GateLLog(logger, level)
           evs == <<Ev("getField", b)>> \o LLogGateEvents(logger, level)
                  \o (IF gate THEN EmitEvents(logger, level, l.depth, msg, logger.fields, cleaners)
                      ELSE <<>>)
           pool1 == PoolAfterGet(fieldPool, b)
           pool2 == IF Has(evs, "putField") THEN PoolAfterPut(pool1, b) ELSE pool1
           heap1 == [heap EXCEPT ![b] = WriteAt(@, 0, IF gate THEN Resolve(logger.fields)
                                                          ELSE logger.fields)]
       IN  /\ pool2[b] <= PoolCap
           /\ fieldPool' = pool2
           /\ heap' = Collect(heap1, handles, pool2)
           /\ builderPool' = IF Has(evs, "putBuilder") THEN BuilderAfterEmit(builderPool)
                             ELSE builderPool
           /\ exited' = Has(evs, "exit")
           /\ Done("Logger.Levelf", 0, level, FALSE, evs)
    /\ UNCHANGED <<logger, cleaners, handles>>

(* A Log / LLog value is copied: l2 := l *)
Copy(h, h2) ==
    /\ ~exited
    /\ handles[h] # NoHandle
    /\ FreeSlot(h2)
    /\ handles' = [handles EXCEPT ![h2] = handles[h]]
    /\ Done("Copy", h2, 0, FALSE, <<>>)
    /\ UNCHANGED <<logger, cleaners, heap, fieldPool, builderPool, exited>>

(* A Log / LLog value goes out of scope *)
Drop(h) ==
    /\ ~exited
    /\ handles[h] # NoHandle
    /\ handles' = [handles EXCEPT ![h] = NoHandle]
    /\ heap' = Collect(heap, handles', fieldPool)
    /\ Done("Drop", h, 0, FALSE, <<>>)
    /\ UNCHANGED <<logger, cleaners, fieldPool, builderPool, exited>>

CallArgs == SeqsUpTo(CallFields, MaxCall)
CallArgs1 == CallArgs \ {<<>>}

(* The operations on the Log / LLog values held in the variables hs *)
Emission(hs) ==
    \/ \E h \in hs, level \in LogLevels, fs \in CallArgs, b \in GetChoices :
          LoggerLevel(h, level, fs, b)
    \/ \E h \in hs, fs \in CallArgs1 : LogF(h, fs)
    \/ \E h \in hs : LogMsg(h, "m")
    \/ \E h \in hs, fs \in CallArgs, b \in GetChoices : LoggerF(h, fs, b)
    \/ \E h \in hs, fs \in CallArgs1 : LLogF(h, fs)
    \/ \E h \in hs, level \in LogLevels : LLogLevelf(h, level, "m")
    \/ \E level \in LogLevels, b \in GetChoices : LoggerLevelf(level, "m", b)
    \/ \E h \in hs : Drop(h)

(* Spec: one logger without hooks, Log / LLog values held in two variables
   and copied between them *)
Init == InitWith(BaseConfigs)
Next ==
    \/ Emission(Handles)
    \/ \E h \in Handles, h2 \in Handles : Copy(h, h2)
Spec == Init /\ [][Next]_vars

(* SpecGate: every logger configuration, one Log / LLog value at a time *)
InitGate == InitWith(Configs)
NextGate == Emission({1})
SpecGate == InitGate /\ [][NextGate]_vars

(* SpecExit: the exit functions registered by AppendCleaner, one Log / LLog
   value at a time *)
NextExit ==
    \/ \E c \in CleanerSet : AppendCleaner(c)
    \/ Emission({1})
InitExit == InitWith({c \in BaseConfigs : c.fields = <<>>})
SpecExit == InitExit /\ [][NextExit]_vars

(* SpecExitFail: as SpecExit, with an exit function that panics among the
   registered ones *)
NextExitFail ==
    \/ \E c \in {"boom", "clean1"} : AppendCleaner(c)
    \/ Emission({1})
SpecExitFail == InitExit /\ [][NextExitFail]_vars

(* ExtLogger.Log, part_005:104-128 (logger_ext.go:119-143): a record below the
   logger's level is dropped; the others are encoded, and the exit functions
   and os.Exit follow when lvl == LvlFatal *)
ExtLevels == {LvlInfo, LvlWarn, LvlPanic, LvlFatal, LvlFatal + 5}
ExtLoggerLog(lvl, msg) ==
    /\ ~exited
    /\ LET r == [Name |-> logger.name, Lvl |-> lvl, Msg |-> msg]
           evs == IF lvl < logger.level THEN <<>>
                  ELSE <<Ev("encode", r)>>
                       \o (IF lvl = LvlFatal THEN ExitEvents(cleaners) ELSE <<>>)
       IN  /\ exited' = Has(evs, "exit")
           /\ Done("ExtLogger.Log", 0, lvl, FALSE, evs)
    /\ UNCHANGED <<logger, cleaners, handles, heap, fieldPool, builderPool>>

(* SpecExt: one ExtLogger with the registered exit functions *)
NextExt ==
    \/ \E c \in CleanerSet : AppendCleaner(c)
    \/ \E lvl \in ExtLevels : ExtLoggerLog(lvl, "m")
ExtConfigs == {[c EXCEPT !.level = l] : c \in {b \in BaseConfigs : b.fields = <<>>},
                                        l \in LoggerLevels \cup {LvlFatal + 5}}
InitExt == InitWith(ExtConfigs)
SpecExt == InitExt /\ [][NextExt]_vars

(* SpecMsgf: Log values of one logger ended by Msgf with zero or more format
   arguments, one value at a time *)
FormatArgs == 0..MaxArgs
MsgfCalls(hs) ==
    \/ \E h \in hs, level \in LogLevels, fs \in CallArgs, b \in GetChoices :
          LoggerLevel(h, level, fs, b)
    \/ \E h \in hs, fs \in CallArgs1 : LogF(h, fs)
    \/ \E h \in hs, nargs \in FormatArgs : LogMsgf(h, "m", nargs)
    \/ \E h \in hs : Drop(h)
NextMsgf == MsgfCalls({1})
SpecMsgf == InitGate /\ [][NextMsgf]_vars

(* SpecOrder: Log values of one logger, held in two variables and copied
   between them, with call-site fields that differ *)
OrderFields == {[Key |-> "k1", Value |-> "v1"], [Key |-> "k2", Value |-> "v2"]}
OrderArgs == SeqsUpTo(OrderFields, MaxCall)
NextOrder ==
    \/ \E h \in Handles, fs \in OrderArgs, b \in GetChoices : LoggerLevel(h, LvlWarn, fs, b)
    \/ \E h \in Handles, fs \in OrderArgs \ {<<>>} : LogF(h, fs)
    \/ \E h \in Handles : LogMsg(h, "m")
    \/ \E h \in Handles, h2 \in Handles : Copy(h, h2)
    \/ \E h \in Handles : Drop(h)
SpecOrder == Init /\ [][NextOrder]_vars

(* SpecWrite: loggers with either encoder and with a Writer that succeeds or
   fails, one Log / LLog value at a time *)
WriteConfigs ==
    {[New EXCEPT !.level = LvlWarn, !.encoder = e, !.writer = w, !.fields = fs] :
        e \in {"TextEncoder", "NothingEncoder"}, w \in {"Stdout", "Failing"},
        fs \in SeqsUpTo(CtxFields, MaxCtx)}
InitWrite == InitWith(WriteConfigs)

(* Write returns (0, nil) whatever emitLog returned *)
Swallowed(evs) == [n |-> 0, err |-> FALSE]

(* return emitLog(...), logger.go:103: the pair emitLog returned *)
Propagated(evs) == evs[First(evs, "return")][2]

(* loggerWriter.Write, logger.go:101-106, of Logger.ToWriter(level): newLog
   gates the record and takes the buffer b, emitLog emits it at depth 1 *)
LoggerWriterWrite(level, msg, b) ==
    /\ ~exited
    /\ LET ok == GateLog(logger, level)
           emit == IF ok THEN <<Ev("getField", b)>>
                              \o EmitEvents(logger, level, 1, msg, logger.fields, cleaners)
                   ELSE <<>>
           evs == HookEvents(logger, level) \o emit
                  \o (IF ~ok THEN <<Ev("result", [n |-> 0, err |-> FALSE])>>
                      ELSE IF Has(emit, "return") THEN <<Ev("result", Propagated(emit))>>
                      ELSE <<>>)
           pool1 == IF ok THEN PoolAfterGet(fieldPool, b) ELSE fieldPool
           pool2 == IF Has(evs, "putField") THEN PoolAfterPut(pool1, b) ELSE pool1
           heap1 == IF ok THEN [heap EXCEPT ![b] = WriteAt(@, 0, Resolve(logger.fields))]
                    ELSE heap
       IN  /\ pool2[b] <= PoolCap
           /\ fieldPool' = pool2
           /\ heap' = Collect(heap1, handles, pool2)
           /\ builderPool' = IF Has(evs, "putBuilder") THEN BuilderAfterEmit(builderPool)
                             ELSE builderPool
           /\ exited' = Has(evs, "exit")
           /\ Done("loggerWriter.Write", 0, level, FALSE, evs)
    /\ UNCHANGED <<logger, cleaners, handles>>

(* SpecHooks: every logger configuration, one Log / LLog value at a time, and
   the io.Writer of Logger.ToWriter *)
NextHooks ==
    \/ Emission({1})
    \/ \E level \in LogLevels, b \in GetChoices : LoggerWriterWrite(level, "m", b)
SpecHooks == InitGate /\ [][NextHooks]_vars

NextWrite ==
    \/ Emission({1})
    \/ \E level \in LogLevels, b \in GetChoices : LoggerWriterWrite(level, "m", b)
SpecWrite == InitWrite /\ [][NextWrite]_vars

-----------------------------------------------------------------------------
(* Derived loggers: Logger is a struct copied by value (logger.go:40-49) whose
   fields and hooks are Go slices. A slice is a backing array and a length;
   the copies of a Logger share the backing arrays of its slices. *)
FieldBytes == 32     \* a Field: a string and an interface value
HookBytes  == 8      \* a Hook: a func value

NilSlice == [arr |-> 0, len |-> 0]
Cap(arrs, sl) == IF sl.arr = 0 THEN 0 ELSE arrs[sl.arr].cap
Elems(arrs, sl) == IF sl.arr = 0 THEN <<>> ELSE SubSeq(arrs[sl.arr].cells, 1, sl.len)

(* The allocation sizes of the Go runtime up to 512 bytes *)
SizeClasses == {8, 16, 24, 32, 48, 64, 80, 96, 112, 128, 144, 160, 176, 192, 208,
                224, 240, 256, 288, 320, 352, 384, 416, 448, 480, 512}
RoundUpSize(n) == CHOOSE c \in SizeClasses : c >= n /\ \A d \in SizeClasses : d >= n => c <= d

(* The capacity append gives a slice that has to grow to newlen elements *)
GrowCap(oldcap, newlen, size) ==
    RoundUpSize((IF newlen > 2 * oldcap THEN newlen ELSE 2 * oldcap) * size) \div size

(* append(sl, xs...): within the capacity the elements are written into the
   shared backing array after len(sl); beyond it a new array is allocated *)
GoAppend(arrs, sl, xs, size) ==
    IF xs = <<>> THEN [arrs |-> arrs, slice |-> sl]
    ELSE IF sl.len + Len(xs) <= Cap(arrs, sl)
    THEN [arrs |-> [arrs EXCEPT ![sl.arr].cells = WriteAt(@, sl.len, xs)],
          slice |-> [sl EXCEPT !.len = @ + Len(xs)]]
    ELSE [arrs |-> Append(arrs, [cap |-> GrowCap(Cap(arrs, sl), sl.len + Len(xs), size),
                                 cells |-> Elems(arrs, sl) \o xs]),
          slice |-> [arr |-> Len(arrs) + 1, len |-> sl.len + Len(xs)]]

(* The fields slice with no regard for the fields the logger has *)
FieldsReplaced(arrs, l, fs) == GoAppend(arrs, NilSlice, fs, FieldBytes)

(* l.fields = append(l.fields, fields...), logger.go:246 *)
FieldsAppended(arrs, l, fs) == GoAppend(arrs, l.fields, fs, FieldBytes)

(* l.hooks = append(l.hooks, hook...), logger.go:234 *)
HooksAppended(arrs, l, hs) == GoAppend(arrs, l.hooks, hs, HookBytes)

(* The number of fields or hooks one call passes *)
AddCounts == {1, 2}

(* The k fields / hooks passed when the n-th logger is derived *)
Added(n, k) == [j \in 1..k |-> <<n, j>>]

(* The Logger value New() returns, its slices nil *)
Root == [parent |-> 0, name |-> New.name, depth |-> New.depth, level |-> New.level,
         writer |-> New.writer, encoder |-> New.encoder,
         fields |-> NilSlice, hooks |-> NilSlice]

InitDerive ==
    /\ logger = New
    /\ cleaners = <<>>
    /\ handles = [h \in Handles |-> NoHandle]
    /\ heap = [b \in Bufs |-> <<>>]
    /\ fieldPool = [b \in Bufs |-> 0]
    /\ builderPool = 0
    /\ exited = FALSE
    /\ last = [op |-> "New", h |-> 0, level |-> 0, pooled |-> FALSE, ev |-> <<>>]
    /\ loggers = <<Root>>
    /\ arrays = <<>>
    /\ pc = <<>>
    /\ mu = 0
    /\ sink = <<>>
    /\ written = <<>>
    /\ fbPool = [k \in FBPools |-> <<>>]
    /\ fbs = <<>>
    /\ InitGlobals
    /\ InitWriters

Derived(op, p, xs) ==
    /\ last' = [op |-> op, h |-> p, level |-> 0, pooled |-> FALSE, ev |-> xs]
    /\ UNCHANGED <<pvars, svars, fvars, gvars, wvars>>

(* Logger.WithField / WithKv, logger.go:245-262, on the logger p *)
WithField(p, k) ==
    /\ Len(loggers) < MaxLoggers
    /\ LET fs == Added(Len(loggers) + 1, k)
           r == FieldsAppended(arrays, loggers[p], fs)
       IN  /\ loggers' = Append(loggers, [loggers[p] EXCEPT !.fields = r.slice, !.parent = p])
           /\ arrays' = r.arrs
           /\ Derived("WithField", p, fs)

(* Logger.WithHook, logger.go:233-236, on the logger p *)
WithHook(p, k) ==
    /\ Len(loggers) < MaxLoggers
    /\ LET hs == Added(Len(loggers) + 1, k)
           r == HooksAppended(arrays, loggers[p], hs)
       IN  /\ loggers' = Append(loggers, [loggers[p] EXCEPT !.hooks = r.slice, !.parent = p])
           /\ arrays' = r.arrs
           /\ Derived("WithHook", p, hs)

NextDerive ==
    \/ \E p \in 1..Len(loggers), k \in AddCounts : WithField(p, k)
    \/ \E p \in 1..Len(loggers), k \in AddCounts : WithHook(p, k)

(* SpecDerive: the loggers derived from New() by WithField and WithHook *)
SpecDerive == InitDerive /\ [][NextDerive]_vars

-----------------------------------------------------------------------------
(* Lazy context fields. Every field WithField binds is here a Valuer such as
   Caller(); the value it returns at an emission is that field marked
   "called". *)
IsValuer(f) == Len(f) = 2
Called(f) == IF IsValuer(f) THEN Append(f, "called") ELSE f
ValuerEvents(fs) == KeepEv([i \in 1..Len(fs) |->
                      IF IsValuer(fs[i]) THEN Ev("valuer", fs[i]) ELSE Ev("skip", i)], "valuer")

(* An emission whose handle holds the logger's own fields slice: the loop of
   emitLog stores the values into the logger's backing array *)
ResolvedInPlace(arrs, hp, l, b) ==
    [arrs |-> IF l.fields.arr = 0 THEN arrs
              ELSE [arrs EXCEPT ![l.fields.arr].cells =
                       WriteAt(@, 0, [i \in 1..l.fields.len |-> Called(@[i])])],
     heap |-> hp,
     ev   |-> ValuerEvents(Elems(arrs, l.fields))
              \o <<Ev("encode", [i \in 1..l.fields.len |-> Called(Elems(arrs, l.fields)[i])])>>]

(* newLog / newLLog, log.go:69-72, 239-243, then emitLog, log.go:181-190:
   append(fieldPool.Get(), logger.fields...) copies the logger's fields into
   the pooled array b, the loop stores each Valuer's value into that copy,
   and the encoder reads the copy *)
ResolvedInCopy(arrs, hp, l, b) ==
    [arrs |-> arrs,
     heap |-> [hp EXCEPT ![b] = [i \in 1..l.fields.len |-> Called(Elems(arrs, l.fields)[i])]],
     ev   |-> ValuerEvents(Elems(arrs, l.fields))
              \o <<Ev("encode", [i \in 1..l.fields.len |-> Called(Elems(arrs, l.fields)[i])])>>]

(* One record emitted through the logger p, e.g. p.Info().Msg("m"),
   log.go:58-74, 171-206; sink keeps which loggers have emitted *)
LoggerEmit(p, b) ==
    /\ Len(sink) < MaxRecords
    /\ b \in GetChoices
    /\ LET r == ResolvedInCopy(arrays, heap, loggers[p], b) IN
       /\ arrays' = r.arrs
       /\ heap' = r.heap
       /\ fieldPool' = PoolAfterPut(PoolAfterGet(fieldPool, b), b)
       /\ sink' = Append(sink, p)
       /\ last' = [op |-> "Emit", h |-> p, level |-> LvlInfo, pooled |-> FALSE, ev |-> r.ev]
    /\ UNCHANGED <<logger, cleaners, handles, builderPool, exited, loggers, pc, mu, written,
                   fvars, gvars, wvars>>

NextLazy ==
    \/ \E p \in 1..Len(loggers), k \in AddCounts : WithField(p, k)
    \/ \E p \in 1..Len(loggers), b \in Bufs : LoggerEmit(p, b)

(* SpecLazy: loggers derived by WithField with lazy fields, emitting records *)
SpecLazy == InitDerive /\ [][NextLazy]_vars

-----------------------------------------------------------------------------
(* The configuration methods of Logger, logger.go:135-254: With* have a value
   receiver and return the changed copy, Set* and Add* have a pointer
   receiver and change the Logger they are called on. *)
LoggerVars == {1, 2}                \* the variables holding a Logger value
ArgNames    == {"app"}
ArgDepths   == {0 - 1, 1}
ArgLevels   == {0 - 1, LvlInfo}
ArgWriters  == {"nil", "Failing"}
ArgEncoders == {"nil", "NothingEncoder"}

(* No argument is refused *)
ValidAlways(attr, x) == TRUE

(* The checks of With* / Set*, logger.go:148-226: depth < 0, level < 0,
   w == nil, encoder == nil panic *)
Valid(attr, x) ==
    IF attr \in {"depth", "level"} THEN ~(x < 0)
    ELSE IF attr \in {"writer", "encoder"} THEN x # "nil"
    ELSE TRUE

(* The attribute set on a Logger with the defaults of New *)
ChangedFromNew(l, attr, x) == [Root EXCEPT ![attr] = x]

(* l.name = name, l.depth = depth, ..., on the Logger l *)
Changed(l, attr, x) == [l EXCEPT ![attr] = x]

(* The receiver changes together with the Logger that is returned *)
DeriveInPlace(ls, p, d) == Append([ls EXCEPT ![p] = [d EXCEPT !.parent = ls[p].parent]], d)

(* func (l Logger) With*(...) Logger { ...; return l }: l is a copy of the
   receiver p, which stays as it is *)
Derive(ls, p, d) == Append(ls, d)

(* func (l *Logger) Set*(...) *Logger { ...; return l }: the Logger p changes *)
SetIn(ls, p, d) == [ls EXCEPT ![p] = d]

Configured(op, p, attr, x) ==
    /\ last' = [op |-> op, h |-> p, level |-> 0, pooled |-> FALSE,
                ev |-> <<Ev("arg", <<attr, x>>)>>
                       \o (IF Valid(attr, x) THEN <<>> ELSE <<Ev("panic", attr)>>)]
    /\ UNCHANGED <<pvars, svars, fvars, gvars, wvars>>

With(op, p, attr, x) ==
    /\ Valid(attr, x) => Len(loggers) < Cardinality(LoggerVars)
    /\ loggers' = IF Valid(attr, x)
                  THEN Derive(loggers, p, [Changed(loggers[p], attr, x) EXCEPT !.parent = p])
                  ELSE loggers
    /\ arrays' = arrays
    /\ Configured(op, p, attr, x)

Set(op, p, attr, x) ==
    /\ loggers' = IF Valid(attr, x) THEN SetIn(loggers, p, Changed(loggers[p], attr, x))
                  ELSE loggers
    /\ arrays' = arrays
    /\ Configured(op, p, attr, x)

(* Logger.WithName, logger.go:135-138 *)
WithName(p, name) == With("WithName", p, "name", name)
(* Logger.WithDepth, logger.go:150-156 *)
WithDepth(p, depth) == With("WithDepth", p, "depth", depth)
(* Logger.WithLevel, logger.go:169-175 *)
WithLevel(p, level) == With("WithLevel", p, "level", level)
(* Logger.WithWriter, logger.go:197-203 *)
WithWriter(p, w) == With("WithWriter", p, "writer", w)
(* Logger.WithEncoder, logger.go:215-221 *)
WithEncoder(p, encoder) == With("WithEncoder", p, "encoder", encoder)

(* Logger.SetName, logger.go:142-145 *)
SetName(p, name) == Set("SetName", p, "name", name)
(* Logger.SetDepth, logger.go:160-166 *)
SetDepth(p, depth) == Set("SetDepth", p, "depth", depth)
(* Logger.SetLevel, logger.go:183-189 *)
SetLevel(p, level) == Set("SetLevel", p, "level", level)
(* Logger.SetWriter, logger.go:206-212 *)
SetWriter(p, w) == Set("SetWriter", p, "writer", w)
(* Logger.SetEncoder, logger.go:224-230 *)
SetEncoder(p, encoder) == Set("SetEncoder", p, "encoder", encoder)

(* Logger.AddField, logger.go:251-254 *)
AddField(p, k) ==
    /\ loggers[p].fields.len + k <= MaxCtx
    /\ LET fs == [j \in 1..k |-> <<0 - p, loggers[p].fields.len + j>>]
           r == FieldsAppended(arrays, loggers[p], fs)
       IN  /\ loggers' = SetIn(loggers, p, [loggers[p] EXCEPT !.fields = r.slice])
           /\ arrays' = r.arrs
           /\ last' = [op |-> "AddField", h |-> p, level |-> 0, pooled |-> FALSE, ev |-> fs]
           /\ UNCHANGED <<pvars, svars, fvars, gvars, wvars>>

(* The Logger variables the program shares through a pointer, as Std is *)
Shared == {1}

NextConfig ==
    \/ \E p \in 1..Len(loggers), x \in ArgNames : WithName(p, x)
    \/ \E p \in 1..Len(loggers), x \in ArgDepths : WithDepth(p, x)
    \/ \E p \in 1..Len(loggers), x \in ArgLevels : WithLevel(p, x)
    \/ \E p \in 1..Len(loggers), x \in ArgWriters : WithWriter(p, x)
    \/ \E p \in 1..Len(loggers), x \in ArgEncoders : WithEncoder(p, x)
    \/ \E p \in Shared, x \in ArgNames : SetName(p, x)
    \/ \E p \in Shared, x \in ArgDepths : SetDepth(p, x)
    \/ \E p \in Shared, x \in ArgLevels : SetLevel(p, x)
    \/ \E p \in Shared, x \in ArgWriters : SetWriter(p, x)
    \/ \E p \in Shared, x \in ArgEncoders : SetEncoder(p, x)
    \/ \E p \in Shared, k \in AddCounts : AddField(p, k)

(* SpecConfig: the loggers made from New() by the With*, Set* and AddField
   methods *)
SpecConfig == InitDerive /\ [][NextConfig]_vars

-----------------------------------------------------------------------------
(* SafeWriter, writer.go:132-139: goroutines emit records through one
   SafeWriter; the wrapped Writer receives a record in two parts. *)
Goroutines == 1..MaxGoroutines

InitSafe ==
    /\ logger = New
    /\ cleaners = <<>>
    /\ handles = [h \in Handles |-> NoHandle]
    /\ heap = [b \in Bufs |-> <<>>]
    /\ fieldPool = [b \in Bufs |-> 0]
    /\ builderPool = 0
    /\ exited = FALSE
    /\ last = [op |-> "New", h |-> 0, level |-> 0, pooled |-> FALSE, ev |-> <<>>]
    /\ loggers = <<>>
    /\ arrays = <<>>
    /\ pc = [g \in Goroutines |-> "idle"]
    /\ mu = 0
    /\ sink = <<>>
    /\ written = [g \in Goroutines |-> 0]
    /\ fbPool = [k \in FBPools |-> <<>>]
    /\ fbs = <<>>
    /\ InitGlobals
    /\ InitWriters

(* A mutex that never makes its caller wait *)
MutexOpen(m) == TRUE

(* mu.Lock() returns, writer.go:135: the mutex is free *)
MutexFree(m) == m = 0

(* emitLog calls logger.writer.Write(level, bs), log.go:192-194 *)
Write(g) ==
    /\ pc[g] = "idle"
    /\ written[g] < MaxRecords
    /\ pc' = [pc EXCEPT ![g] = "lock"]
    /\ UNCHANGED <<pvars, last, dvars, fvars, gvars, wvars, mu, sink, written>>

(* mu.Lock(), writer.go:135 *)
Lock(g) ==
    /\ pc[g] = "lock"
    /\ MutexFree(mu)
    /\ mu' = g
    /\ pc' = [pc EXCEPT ![g] = "call"]
    /\ UNCHANGED <<pvars, last, dvars, fvars, gvars, wvars, sink, written>>

(* w.Write(level, p) starts, writer.go:137 *)
WriteBegin(g) ==
    /\ pc[g] = "call"
    /\ sink' = Append(sink, <<g, written[g] + 1, "begin">>)
    /\ pc' = [pc EXCEPT ![g] = "writing"]
    /\ UNCHANGED <<pvars, last, dvars, fvars, gvars, wvars, mu, written>>

(* w.Write(level, p) returns, writer.go:137 *)
WriteEnd(g) ==
    /\ pc[g] = "writing"
    /\ sink' = Append(sink, <<g, written[g] + 1, "end">>)
    /\ pc' = [pc EXCEPT ![g] = "unlock"]
    /\ UNCHANGED <<pvars, last, dvars, fvars, gvars, wvars, mu, written>>

(* the deferred mu.Unlock(), writer.go:136 *)
Unlock(g) ==
    /\ pc[g] = "unlock"
    /\ mu' = 0
    /\ written' = [written EXCEPT ![g] = @ + 1]
    /\ pc' = [pc EXCEPT ![g] = "idle"]
    /\ UNCHANGED <<pvars, last, dvars, fvars, gvars, wvars, sink>>

NextSafe ==
    \E g \in Goroutines : Write(g) \/ Lock(g) \/ WriteBegin(g) \/ WriteEnd(g) \/ Unlock(g)

(* SpecSafe: goroutines writing records through one SafeWriter *)
SpecSafe == InitSafe /\ [][NextSafe]_vars

-----------------------------------------------------------------------------
(* Goroutines emitting through one Logger, each with a handle of its own that
   receives one terminal call. sync.Pool's Get and Put are atomic; everything
   else an emission does to its buffer is a step of its own. pc[g] is where
   goroutine g stands and which backing array its handle holds. *)
PoolBufs == 1..(MaxGoroutines + 1)
Idle == [at |-> "idle", arr |-> 0]

InitPool ==
    /\ logger = New
    /\ cleaners = <<>>
    /\ handles = [h \in Handles |-> NoHandle]
    /\ heap = [b \in PoolBufs |-> <<>>]
    /\ fieldPool = [b \in PoolBufs |-> 0]
    /\ builderPool = 0
    /\ exited = FALSE
    /\ last = [op |-> "New", h |-> 0, level |-> 0, pooled |-> FALSE, ev |-> <<>>]
    /\ loggers = <<>>
    /\ arrays = <<>>
    /\ pc = [g \in Goroutines |-> Idle]
    /\ mu = 0
    /\ sink = <<>>
    /\ written = [g \in Goroutines |-> 0]
    /\ fbPool = [k \in FBPools |-> <<>>]
    /\ fbs = <<>>
    /\ InitGlobals
    /\ InitWriters

(* The goroutines whose handle holds backing array b *)
Holders(b) == {g \in Goroutines : pc[g].arr = b}

(* fieldPool.Get(), log.go:32: an array waiting in the pool, or one New makes *)
PoolGetChoices ==
    LET free == {b \in PoolBufs : fieldPool[b] = 0 /\ Holders(b) = {}}
    IN {b \in PoolBufs : fieldPool[b] > 0}
       \cup (IF free = {} THEN {} ELSE {CHOOSE b \in free : \A c \in free : b <= c})

(* newLog / newLLog, log.go:69-72, 239-243: Get, then the context fields are
   appended into the array *)
PoolNewLog(g, b) ==
    /\ pc[g].at = "idle"
    /\ written[g] < MaxRecords
    /\ b \in PoolGetChoices
    /\ fieldPool' = PoolAfterGet(fieldPool, b)
    /\ heap' = [heap EXCEPT ![b] = <<<<g, "ctx">>>>]
    /\ pc' = [pc EXCEPT ![g] = [at |-> "log", arr |-> b]]
    /\ UNCHANGED <<logger, cleaners, handles, builderPool, exited, last, dvars,
                   mu, sink, written, fvars, gvars, wvars>>

(* Log.F / LLog.F, log.go:102-108: a call-site field is appended *)
PoolF(g) ==
    /\ pc[g].at = "log"
    /\ heap' = [heap EXCEPT ![pc[g].arr] = Append(@, <<g, "arg">>)]
    /\ pc' = [pc EXCEPT ![g].at = "fields"]
    /\ UNCHANGED <<logger, cleaners, handles, fieldPool, builderPool, exited, last,
                   dvars, mu, sink, written, fvars, gvars, wvars>>

(* LLog.emit, log.go:210-223: the gate rejects the terminal call and the array
   is let go with the handle *)
PoolRejected(g) ==
    /\ pc[g].at \in {"log", "fields"}
    /\ pc' = [pc EXCEPT ![g] = Idle]
    /\ written' = [written EXCEPT ![g] = @ + 1]
    /\ UNCHANGED <<pvars, last, dvars, mu, sink, fvars, gvars, wvars>>

(* emitLog, log.go:181-188: lazy values are resolved in place *)
PoolResolve(g) ==
    /\ pc[g].at \in {"log", "fields"}
    /\ heap' = [heap EXCEPT ![pc[g].arr] = [i \in DOMAIN @ |-> <<g, "value">>]]
    /\ pc' = [pc EXCEPT ![g].at = "resolved"]
    /\ UNCHANGED <<logger, cleaners, handles, fieldPool, builderPool, exited, last,
                   dvars, mu, sink, written, fvars, gvars, wvars>>

(* emitLog, log.go:190-194: the encoder reads the fields and the record is written *)
PoolEncode(g) ==
    /\ pc[g].at = "resolved"
    /\ sink' = Append(sink, <<g, heap[pc[g].arr]>>)
    /\ pc' = [pc EXCEPT ![g].at = "encoded"]
    /\ UNCHANGED <<pvars, last, dvars, mu, written, fvars, gvars, wvars>>

(* emitLog, log.go:195: fieldPool.Put(fields[:0]), and the call returns *)
PoolPut(g) ==
    /\ pc[g].at = "encoded"
    /\ fieldPool' = PoolAfterPut(fieldPool, pc[g].arr)
    /\ pc' = [pc EXCEPT ![g] = Idle]
    /\ written' = [written EXCEPT ![g] = @ + 1]
    /\ UNCHANGED <<logger, cleaners, handles, heap, builderPool, exited, last,
                   dvars, mu, sink, fvars, gvars, wvars>>

NextPool ==
    \E g \in Goroutines :
        \/ \E b \in PoolBufs : PoolNewLog(g, b)
        \/ PoolF(g)
        \/ PoolRejected(g)
        \/ PoolResolve(g)
        \/ PoolEncode(g)
        \/ PoolPut(g)

(* SpecPool: goroutines emitting through one Logger and one fieldPool *)
SpecPool == InitPool /\ [][NextPool]_vars

-----------------------------------------------------------------------------
(* Goroutines calling one Manager, manager.go:21-57. Here heap is the Logger
   objects allocated so far (a *Logger is a place in it, 1 is &Std), loggers
   is the Manager's map from names to *Logger, mu is its RWMutex (the
   goroutines holding the read lock, the one holding the write lock), sink is
   the pointers GetLogger returned for each name, and exited tells that the
   runtime ended the process on an unsynchronised map access. *)
ManagerNames == {"", "a", "b"}
Std == [name |-> "", fields |-> 0]

(* NewManager, manager.go:28-32 *)
InitManager ==
    /\ logger = New
    /\ cleaners = <<>>
    /\ handles = [h \in Handles |-> NoHandle]
    /\ heap = <<Std>>
    /\ fieldPool = [b \in Bufs |-> 0]
    /\ builderPool = 0
    /\ exited = FALSE
    /\ last = [op |-> "NewManager", h |-> 0, level |-> 0, pooled |-> FALSE, ev |-> <<>>]
    /\ loggers = (Std.name :> 1)
    /\ arrays = <<>>
    /\ pc = [g \in Goroutines |-> [at |-> "idle", name |-> "", logger |-> 0]]
    /\ mu = [r |-> {}, w |-> 0]
    /\ sink = [n \in ManagerNames |-> {}]
    /\ written = [g \in Goroutines |-> 0]
    /\ fbPool = [k \in FBPools |-> <<>>]
    /\ fbs = <<>>
    /\ InitGlobals
    /\ InitWriters

mvars == <<logger, cleaners, handles, fieldPool, builderPool, last, arrays, fvars, gvars, wvars>>

(* m.GetLogger(name) is called, manager.go:36 *)
GetLogger(g, name) ==
    /\ ~exited
    /\ pc[g].at = "idle"
    /\ written[g] < MaxRecords
    /\ pc' = [pc EXCEPT ![g] = [at |-> "rlock", name |-> name, logger |-> 0]]
    /\ UNCHANGED <<mvars, heap, loggers, mu, sink, written, exited>>

(* sync.RWMutex: RLock waits for the writer only, Lock for everyone *)
CanRLock(m) == m.w = 0
CanLock(m) == m.w = 0 /\ m.r = {}

(* m.lock.RLock(), manager.go:37 *)
RLock(g) ==
    /\ ~exited
    /\ pc[g].at = "rlock"
    /\ CanRLock(mu)
    /\ mu' = [mu EXCEPT !.r = @ \cup {g}]
    /\ pc' = [pc EXCEPT ![g].at = "lookup"]
    /\ UNCHANGED <<mvars, heap, loggers, sink, written, exited>>

(* logger, ok := m.loggers[name], manager.go:38-39 *)
Lookup(g) ==
    /\ ~exited
    /\ pc[g].at = "lookup"
    /\ pc' = IF pc[g].name \in DOMAIN loggers
             THEN [pc EXCEPT ![g].at = "runlock", ![g].logger = loggers[pc[g].name]]
             ELSE [pc EXCEPT ![g].at = "clone"]
    /\ UNCHANGED <<mvars, heap, loggers, mu, sink, written, exited>>

(* log := Std.WithName(name); logger = &log, manager.go:40-41 *)
CloneStd(g) ==
    /\ ~exited
    /\ pc[g].at = "clone"
    /\ heap' = Append(heap, [Std EXCEPT !.name = pc[g].name])
    /\ pc' = [pc EXCEPT ![g].at = "store", ![g].logger = Len(heap) + 1]
    /\ UNCHANGED <<mvars, loggers, mu, sink, written, exited>>

(* Another goroutine is at a map access that no lock orders with g's *)
Racing(g) == \E g2 \in Goroutines \ {g} : pc[g2].at \in {"lookup", "store"}

(* m.loggers[name] = logger, manager.go:42, under the read lock: with another
   access in progress the write goes through or the runtime ends the process
   ("concurrent map writes", "concurrent map read and map write") *)
Store(g) ==
    /\ ~exited
    /\ pc[g].at = "store"
    /\ \/ /\ loggers' = (pc[g].name :> pc[g].logger) @@ loggers
          /\ pc' = [pc EXCEPT ![g].at = "runlock"]
          /\ UNCHANGED exited
       \/ /\ Racing(g)
          /\ exited' = TRUE
          /\ UNCHANGED <<loggers, pc>>
    /\ UNCHANGED <<mvars, heap, mu, sink, written>>

(* m.lock.RUnlock(); return logger, manager.go:44-46 *)
RUnlock(g) ==
    /\ ~exited
    /\ pc[g].at = "runlock"
    /\ mu' = [mu EXCEPT !.r = @ \ {g}]
    /\ sink' = [sink EXCEPT ![pc[g].name] = @ \cup {pc[g].logger}]
    /\ written' = [written EXCEPT ![g] = @ + 1]
    /\ pc' = [pc EXCEPT ![g].at = "idle"]
    /\ UNCHANGED <<mvars, heap, loggers, exited>>

(* m.AddField(fields...): m.lock.Lock(), manager.go:51-52 *)
ManagerLock(g) ==
    /\ ~exited
    /\ pc[g].at = "idle"
    /\ written[g] < MaxRecords
    /\ CanLock(mu)
    /\ mu' = [mu EXCEPT !.w = g]
    /\ pc' = [pc EXCEPT ![g].at = "addfield"]
    /\ UNCHANGED <<mvars, heap, loggers, sink, written, exited>>

(* for _, logger := range m.loggers { logger.AddField(fields...) }; Unlock,
   manager.go:53-56 *)
ManagerAddField(g) ==
    /\ ~exited
    /\ pc[g].at = "addfield"
    /\ heap' = [i \in DOMAIN heap |->
                  IF \E n \in DOMAIN loggers : loggers[n] = i
                  THEN [heap[i] EXCEPT !.fields = @ + 1] ELSE heap[i]]
    /\ mu' = [mu EXCEPT !.w = 0]
    /\ written' = [written EXCEPT ![g] = @ + 1]
    /\ pc' = [pc EXCEPT ![g].at = "idle"]
    /\ UNCHANGED <<mvars, loggers, sink, exited>>

NextManager ==
    \E g \in Goroutines :
        \/ \E name \in ManagerNames : GetLogger(g, name)
        \/ RLock(g)
        \/ Lookup(g)
        \/ CloneStd(g)
        \/ Store(g)
        \/ RUnlock(g)
        \/ ManagerLock(g)
        \/ ManagerAddField(g)

(* SpecManager: goroutines calling GetLogger and AddField of one Manager *)
SpecManager == InitManager /\ [][NextManager]_vars

-----------------------------------------------------------------------------
(* One SizedRotatingFile written and closed by its caller, writer.go:350-383.
   The operating system's calls succeed. *)
DataLens == 1..(MaxSize + 1)
InitRotating ==
    /\ logger = New
    /\ cleaners = <<>>
    /\ handles = [h \in Handles |-> NoHandle]
    /\ heap = [b \in Bufs |-> <<>>]
    /\ fieldPool = [b \in Bufs |-> 0]
    /\ builderPool = 0
    /\ exited = FALSE
    /\ last = [op |-> "NewSizedRotatingFile", h |-> 0, level |-> 0, pooled |-> FALSE, ev |-> <<>>]
    /\ loggers = <<>>
    /\ arrays = <<>>
    /\ pc = <<>>
    /\ mu = 0
    /\ sink = <<>>
    /\ written = <<>>
    /\ fbPool = [k \in FBPools |-> <<>>]
    /\ fbs = <<>>
    /\ InitGlobals
    /\ rotating \in {NewSizedRotatingFile(MaxSize, count, live) :
                        count \in BackupCounts, live \in {<<>>, <<<<0, 1>>>>}}
    /\ reopener = NewReopenWriter
    /\ closing = 0

rvars == <<pvars, dvars, svars, fvars, gvars, reopener, closing>>

(* SizedRotatingFile.Write, writer.go:363-383, with data of n bytes: on a nil
   *os.File, File.Write returns os.ErrInvalid *)
RotatingWrite(n) ==
    /\ rotating.writes < MaxWrites
    /\ LET f == [rotating EXCEPT !.writes = @ + 1]
           data == <<f.writes, n>>
           full == f.nbytes + n > f.maxSize
           r == IF full THEN doRollover(f) ELSE f
           call == <<Ev("data", data)>> \o (IF full THEN <<Ev("doRollover", "nil")>> ELSE <<>>)
       IN  IF f.file = "nil"
           THEN /\ rotating' = f
                /\ last' = [op |-> "SizedRotatingFile.Write", h |-> 0, level |-> 0,
                            pooled |-> FALSE,
                            ev |-> <<Ev("data", data), Ev("result", [n |-> 0, err |-> "closed"])>>]
           ELSE IF r.file = "nil"
           THEN /\ rotating' = r
                /\ last' = [op |-> "SizedRotatingFile.Write", h |-> 0, level |-> 0,
                            pooled |-> FALSE,
                            ev |-> call \o <<Ev("result", [n |-> 0, err |-> "os.ErrInvalid"])>>]
           ELSE /\ rotating' = [r EXCEPT !.files[0].data = Append(@, data), !.nbytes = @ + n]
                /\ last' = [op |-> "SizedRotatingFile.Write", h |-> 0, level |-> 0,
                            pooled |-> FALSE,
                            ev |-> call \o <<Ev("result", [n |-> n, err |-> "nil"])>>]
    /\ UNCHANGED rvars

(* SizedRotatingFile.Close, writer.go:350-355 *)
RotatingClose ==
    /\ ~rotating.closed
    /\ rotating' = [CloseFile(rotating) EXCEPT !.closed = TRUE]
    /\ last' = [op |-> "SizedRotatingFile.Close", h |-> 0, level |-> 0, pooled |-> FALSE,
                ev |-> <<>>]
    /\ UNCHANGED rvars

NextRotating ==
    \/ \E n \in DataLens : RotatingWrite(n)
    \/ RotatingClose

(* SpecRotating: one SizedRotatingFile with one or two backups *)
SpecRotating == InitRotating /\ [][NextRotating]_vars

-----------------------------------------------------------------------------
(* The writers that wrap other Writers, writer.go:62-79, 214-260. A wrapped
   Writer is "ok" when its Write and Close succeed, "fail" when they return an
   error, and "short" when its Write stores all but one byte and returns an
   error. A value of the interface type error is nil when it holds no
   dynamic type; one that holds a type is not nil, whatever the value. *)
WriterKinds == {"ok", "fail", "short"}
Outs == SeqsUpTo(WriterKinds, MaxOuts)
NilError == [type |-> "nil", val |-> <<>>]
IsNilError(e) == e.type = "nil"

(* out.Write(level, p) with n bytes of data, and out.Close(), of a wrapped Writer *)
OutWrite(out, n) ==
    IF out = "ok" THEN [n |-> n, err |-> NilError]
    ELSE IF out = "short"
    THEN [n |-> n - 1, err |-> [type |-> "*errors.errorString", val |-> <<"short write">>]]
    ELSE [n |-> 0, err |-> [type |-> "*errors.errorString", val |-> <<"write failed">>]]
OutClose(out) ==
    IF out # "fail" THEN NilError
    ELSE [type |-> "*errors.errorString", val |-> <<"close failed">>]

(* The errs slice of MultiWriter, writer.go:217-227, 231-239: nil until an
   error comes, then make(Errors, _len) with errs[i] = e *)
MultiErrs(res) ==
    IF \A i \in DOMAIN res : IsNilError(res[i]) THEN <<>> ELSE res

(* `return n, errs`, writer.go:228, 240: the Errors slice, nil or not, becomes
   the error that is returned *)
ErrorsAsError(errs) == [type |-> "Errors", val |-> errs]

RECURSIVE SumN(_)
SumN(rs) == IF rs = <<>> THEN 0 ELSE Head(rs).n + SumN(Tail(rs))

(* MultiWriter(outs...).Write, writer.go:216-229 *)
MultiWriterWrite(outs, n) ==
    LET rs == [i \in DOMAIN outs |-> OutWrite(outs[i], n)]
    IN  [i \in DOMAIN outs |-> Ev("write", i)]
        \o <<Ev("result", [n |-> SumN(rs),
                           err |-> ErrorsAsError(MultiErrs([i \in DOMAIN rs |-> rs[i].err]))])>>

(* MultiWriter(outs...).Close, writer.go:230-241 *)
MultiWriterClose(outs) ==
    [i \in DOMAIN outs |-> Ev("close", i)]
    \o <<Ev("result", [n |-> 0,
                       err |-> ErrorsAsError(MultiErrs([i \in DOMAIN outs |-> OutClose(outs[i])]))])>>

(* A FailoverWriter that goes on to the next writer after a success too *)
FailoverKeepsOn(outs, n) ==
    [i \in DOMAIN outs |-> Ev("write", i)]
    \o <<Ev("result", IF outs = <<>> THEN [n |-> 0, err |-> NilError]
                      ELSE OutWrite(outs[Len(outs)], n))>>

(* FailoverWriter(outs...).Write, writer.go:252-259 (part_015:244-251): the
   writers in order up to the first whose Write returns no error *)
FailoverWriterWrite(outs, n) ==
    LET good == {i \in DOMAIN outs : IsNilError(OutWrite(outs[i], n).err)}
        stop == IF good = {} THEN Len(outs) ELSE CHOOSE i \in good : \A j \in good : i <= j
    IN  [i \in 1..stop |-> Ev("write", i)]
        \o <<Ev("result", IF stop = 0 THEN [n |-> 0, err |-> NilError]
                          ELSE OutWrite(outs[stop], n))>>

(* A call of one of the wrapping writers on outs *)
WriterCall(op, outs, n, evs) ==
    /\ closing = 0
    /\ Done(op, 0, 0, FALSE, <<Ev("outs", outs), Ev("data", n)>> \o evs)
    /\ UNCHANGED pvars

(* ioWriter.Write, writer.go:67-69: FromWriter(w).Write(p) *)
IoWriterWrite(w, n) ==
    WriterCall("ioWriter.Write", <<w>>, n, <<Ev("write", 1), Ev("result", OutWrite(w, n))>>)

(* ioWriter.Close, writer.go:72-74, is entered: FromWriter(w).Close() *)
IoWriterClose(w) ==
    /\ closing = 0
    /\ closing' = 1
    /\ last' = [op |-> "ioWriter.Close", h |-> 0, level |-> 0, pooled |-> FALSE,
                ev |-> <<Ev("outs", <<w>>)>>]
    /\ UNCHANGED <<pvars, dvars, svars, fvars, gvars, rotating, reopener>>

(* `return w.Close()`, writer.go:73: w is the ioWriter, whose Close this is *)
IoWriterCloseAgain ==
    /\ closing > 0
    /\ closing < MaxFrames
    /\ closing' = closing + 1
    /\ UNCHANGED <<pvars, last, dvars, svars, fvars, gvars, rotating, reopener>>

(* The stack is full: the runtime ends the process ("stack overflow") *)
StackOverflow ==
    /\ closing = MaxFrames
    /\ closing' = 0 - 1
    /\ UNCHANGED <<pvars, last, dvars, svars, fvars, gvars, rotating, reopener>>

NextWriters ==
    \/ \E outs \in Outs, n \in DataLens : WriterCall("MultiWriter.Write", outs, n, MultiWriterWrite(outs, n))
    \/ \E outs \in Outs : WriterCall("MultiWriter.Close", outs, 0, MultiWriterClose(outs))
    \/ \E outs \in Outs, n \in DataLens :
          WriterCall("FailoverWriter.Write", outs, n, FailoverWriterWrite(outs, n))
    \/ \E w \in WriterKinds, n \in DataLens : IoWriterWrite(w, n)
    \/ \E w \in WriterKinds : IoWriterClose(w)
    \/ IoWriterCloseAgain
    \/ StackOverflow

(* SpecWriters: calls of MultiWriter, FailoverWriter and FromWriter's writer;
   SpecWritersFair: every call that has begun goes on *)
SpecWriters == InitDerive /\ [][NextWriters]_vars
SpecWritersFair == SpecWriters /\ WF_vars(NextWriters)

-----------------------------------------------------------------------------
(* ReopenWriter, writer.go:168-212. factory returns the k-th writer it has
   made with a reopen channel ("chan"), with a nil channel ("nil"), or an
   error ("err"); ready tells that the reopen channel holds a value when the
   select looks at it. A nil channel never holds one. w = 0 is the nil writer. *)
FactoryOutcomes == {"chan", "nil", "err"}

(* w, reopen, err = factory(); on an error w = nil; reopen = nil,
   writer.go:179-183, 190-194 *)
AfterFactory(r, out) ==
    IF out = "err" THEN [r EXCEPT !.w = 0, !.reopen = "nil", !.opens = @ + 1]
    ELSE [r EXCEPT !.w = r.opens + 1, !.reopen = out, !.opens = @ + 1]

(* The write closure of ReopenWriter, writer.go:174-198, with n bytes: out1
   is what factory returns at the first if, out2 at the select *)
ReopenWrite(r, n, out1, ready, out2) ==
    LET first == r.reopen = "nil"
        r1 == IF first THEN AfterFactory(r, out1) ELSE r
        ev1 == IF first THEN <<Ev("factory", out1)>> ELSE <<>>
    IN  IF first /\ out1 = "err"
        THEN [r |-> r1, ev |-> ev1 \o <<Ev("result", [n |-> 0, err |-> "factory"])>>]
        ELSE IF ~first /\ r.w = 0
        THEN [r |-> r1, ev |-> <<Ev("result", [n |-> 0, err |-> "closed"])>>]
        ELSE IF ready /\ r1.reopen = "chan"
        THEN LET r2 == AfterFactory(r1, out2)
                 ev2 == ev1 \o <<Ev("close", r1.w), Ev("factory", out2)>>
             IN  IF out2 = "err"
                 THEN [r |-> r2, ev |-> ev2 \o <<Ev("result", [n |-> 0, err |-> "factory"])>>]
                 ELSE [r |-> r2, ev |-> ev2 \o <<Ev("write", r2.w),
                                                 Ev("result", [n |-> n, err |-> "nil"])>>]
        ELSE [r |-> r1, ev |-> ev1 \o <<Ev("write", r1.w),
                                        Ev("result", [n |-> n, err |-> "nil"])>>]

(* The close closure of ReopenWriter, writer.go:199-207 *)
ReopenClose(r) ==
    [r |-> [r EXCEPT !.w = 0, !.closed = TRUE],
     ev |-> IF r.w # 0 THEN <<Ev("close", r.w)>> ELSE <<>>]

ReopenCall(op, res) ==
    /\ reopener' = res.r
    /\ last' = [op |-> op, h |-> 0, level |-> 0, pooled |-> FALSE, ev |-> res.ev]
    /\ UNCHANGED <<pvars, dvars, svars, fvars, gvars, rotating, closing>>

ReopenWriterWrite(n, out1, ready, out2) ==
    /\ reopener.opens + 2 <= MaxOpens
    /\ ReopenCall("ReopenWriter.Write", ReopenWrite(reopener, n, out1, ready, out2))

ReopenWriterClose ==
    ReopenCall("ReopenWriter.Close", ReopenClose(reopener))

NextReopen ==
    \/ \E n \in DataLens, out1 \in FactoryOutcomes, ready \in BOOLEAN, out2 \in FactoryOutcomes :
          ReopenWriterWrite(n, out1, ready, out2)
    \/ ReopenWriterClose

(* SpecReopen: one ReopenWriter written and closed by its caller *)
SpecReopen == InitDerive /\ [][NextReopen]_vars


-----------------------------------------------------------------------------
(* FieldBuilder, field.go:79-144.  A []Field slice is its capacity and its
   length; a Field is an interface value of two words. *)
FieldIface == 16
MaxBuilders == 2     \* FieldBuilder values the program holds at once
MaxFBFields == 5     \* fields appended to one FieldBuilder
MaxPooled == 2       \* slices one pool keeps before the runtime drops one
ArgCaps == {4, 5, 16, 17}

(* The pool NewFieldBuilder chooses for n, field.go:92-100; Release runs the
   same comparisons, field.go:135-143 *)
FBPoolFor(n) == IF n > 16 THEN 32 ELSE IF n > 8 THEN 16 ELSE IF n > 4 THEN 8 ELSE 4

(* sync.Pool.Get: a slice the pool holds, or a new one from the pool's New *)
FBGetChoices(k) == {0} \cup (1..Len(fbPool[k]))
FBGet(k, i) == IF i = 0 THEN [cap |-> k, len |-> 0] ELSE fbPool[k][i]
FBAfterGet(k, i) ==
    IF i = 0 THEN fbPool
    ELSE [fbPool EXCEPT ![k] = SubSeq(@, 1, i - 1) \o SubSeq(@, i + 1, Len(@))]

(* sync.Pool.Put: the pool keeps the slice, the runtime dropping the oldest
   one when the pool is full *)
FBAfterPut(k, fields) ==
    [fbPool EXCEPT ![k] = IF Len(@) < MaxPooled THEN Append(@, fields)
                          ELSE Append(Tail(@), fields)]

FBDone(op, b, evs) ==
    /\ last' = [op |-> op, h |-> b, level |-> 0, pooled |-> FALSE, ev |-> evs]
    /\ UNCHANGED <<pvars, dvars, svars, gvars, wvars>>

(* NewFieldBuilder(cap), field.go:90-102 *)
NewFieldBuilder(c, i) ==
    /\ Len(fbs) < MaxBuilders
    /\ i \in FBGetChoices(FBPoolFor(c))
    /\ fbs' = Append(fbs, FBGet(FBPoolFor(c), i))
    /\ fbPool' = FBAfterGet(FBPoolFor(c), i)
    /\ FBDone("NewFieldBuilder", Len(fbs) + 1,
              <<Ev("get", <<FBPoolFor(c), FBGet(FBPoolFor(c), i).cap>>)>>)

(* fb = fb.Field(key, value), field.go:108-111 *)
FieldBuilderField(b) ==
    /\ b \in 1..Len(fbs)
    /\ fbs[b].len < MaxFBFields
    /\ fbs' = [fbs EXCEPT ![b] =
                 IF @.len + 1 <= @.cap THEN [@ EXCEPT !.len = @ + 1]
                 ELSE [cap |-> GrowCap(@.cap, @.len + 1, FieldIface), len |-> @.len + 1]]
    /\ fbPool' = fbPool
    /\ FBDone("Field", b, <<>>)

(* fb.Reset(), field.go:130 *)
Reset(fields) == [fields EXCEPT !.len = 0]

(* fb.Release(), field.go:133-144: cap := len(fb.fields) is taken after the
   Reset *)
Release(b) ==
    /\ b \in 1..Len(fbs)
    /\ LET fields == Reset(fbs[b])
           cap == fields.len
       IN  /\ fbPool' = FBAfterPut(FBPoolFor(cap), fields)
           /\ FBDone("Release", b, <<Ev("put", <<FBPoolFor(cap), fields.cap>>)>>)
    /\ fbs' = SubSeq(fbs, 1, b - 1) \o SubSeq(fbs, b + 1, Len(fbs))

NextFB ==
    \/ \E c \in ArgCaps, i \in 0..MaxPooled : NewFieldBuilder(c, i)
    \/ \E b \in 1..MaxBuilders : FieldBuilderField(b)
    \/ \E b \in 1..MaxBuilders : Release(b)

SpecFB == InitDerive /\ [][NextFB]_vars

-----------------------------------------------------------------------------
(* The depth of the caller.  A goroutine's stack is the sequence of its
   frames, the outermost first; the application calls an emitting function f
   of the library from under wrap functions of its own. *)
MaxDepth == 2        \* the depth the Logger is configured with
MaxWrap == 2         \* the application's own functions around the call

EmitOps == {"Log.Msg", "Log.Msgf", "Log.Print", "Log.Printf", "Log.Ef",
            "LLog.Infof", "LLog.Lf", "LLog.Ef",
            "Logger.Infof", "Logger.Lf", "Logger.Ef",
            "klog.Infof", "klog.Lf", "klog.Ef", "loggerWriter.Write"}

(* The function f calls to emit: log.go:111-166, 210-229, 282-315,
   logger.go:101-106, 392-434, part_012:97-123 *)
Callee(f) ==
    CASE f \in {"Log.Msg", "Log.Msgf"} -> "Log.emit"
      [] f = "Log.Print" -> "Log.Msg"
      [] f \in {"Log.Printf", "Log.Ef"} -> "Log.Msgf"
      [] f \in {"LLog.Infof", "LLog.Levelf", "LLog.Lf"} -> "LLog.emit"
      [] f = "LLog.Ef" -> "LLog.Infof"
      [] f \in {"Logger.Infof", "Logger.Ef"} -> "LLog.Infof"
      [] f = "Logger.Lf" -> "LLog.Levelf"
      [] f = "klog.Infof" -> "Logger.Infof"
      [] f = "klog.Lf" -> "Logger.Lf"
      [] f = "klog.Ef" -> "Logger.Ef"
      [] OTHER -> "emitLog"

(* What f adds to the depth it passes on: l.depth++, AddDepth(1),
   newLLog(l, l.depth+1), Std.AddDepth(1) *)
DepthAdded(f) ==
    IF f \in {"Log.Print", "Log.Printf", "Log.Ef", "LLog.Ef",
              "Logger.Infof", "Logger.Lf", "Logger.Ef",
              "klog.Infof", "klog.Lf", "klog.Ef"}
    THEN 1 ELSE 0

(* The library's frames under the application's call of f when emitLog is
   called *)
RECURSIVE Frames(_)
Frames(f) == IF f = "emitLog" THEN <<>> ELSE <<f>> \o Frames(Callee(f))

(* The depth argument emitLog receives when f is called on a Logger or a
   handle of depth d; loggerWriter.Write passes the constant 1,
   logger.go:103 *)
RECURSIVE EmitDepth(_, _)
EmitDepth(f, d) ==
    IF f = "loggerWriter.Write" THEN 1
    ELSE IF Callee(f) = "emitLog" THEN d
    ELSE EmitDepth(Callee(f), d + DepthAdded(f))

(* stack.Caller(skip) called in the innermost frame of st: that frame for
   skip 0, its callers above; no frame beyond the outermost *)
StackCaller(st, skip) == IF skip < Len(st) THEN st[Len(st) - skip] ELSE "none"

(* The application's frames: the function whose line is to be logged and
   w functions of its own between it and the library *)
AppStack(w) == <<"runtime.goexit", "runtime.main", "caller">> \o [i \in 1..w |-> "wrap"]

(* Logger.AddDepthSelf, logger.go:127-133 *)
AddDepthSelf(p, depth) ==
    /\ loggers[p].depth + depth <= MaxDepth
    /\ loggers' = IF Valid("depth", depth)
                  THEN SetIn(loggers, p, [loggers[p] EXCEPT !.depth = @ + depth])
                  ELSE loggers
    /\ arrays' = arrays
    /\ Configured("AddDepthSelf", p, "depth", depth)

(* Logger.AddDepth, logger.go:118-123: l.depth += depth on the copy that is
   returned; depth is not checked *)
AddDepth(p, depth) ==
    /\ Len(loggers) < Cardinality(LoggerVars)
    /\ loggers[p].depth + depth <= MaxDepth
    /\ 0 - MaxDepth <= loggers[p].depth + depth
    /\ loggers' = Derive(loggers, p, [loggers[p] EXCEPT !.depth = @ + depth, !.parent = p])
    /\ arrays' = arrays
    /\ last' = [op |-> "AddDepth", h |-> p, level |-> 0, pooled |-> FALSE,
                ev |-> <<Ev("arg", <<"depth", depth>>)>>]
    /\ UNCHANGED <<pvars, svars, fvars, gvars, wvars>>

(* SpecAdjust: the depth and the level of the loggers made from New() *)
NextAdjust ==
    \/ \E p \in 1..Len(loggers), x \in ArgDepths : WithDepth(p, x)
    \/ \E p \in 1..Len(loggers), x \in ArgLevels : WithLevel(p, x)
    \/ \E p \in 1..Len(loggers), x \in ArgDepths : AddDepth(p, x)
    \/ \E p \in Shared, x \in ArgDepths : SetDepth(p, x)
    \/ \E p \in Shared, x \in ArgLevels : SetLevel(p, x)
    \/ \E p \in Shared, x \in ArgDepths : AddDepthSelf(p, x)
SpecAdjust == InitDerive /\ [][NextAdjust]_vars

(* One emission through f on Logger p, or on a handle made from it, from
   under w functions of the application: the Record the resolvers of
   emitLog are called with, log.go:172-188, and the stack they see *)
EmitAt(f, p, w) ==
    /\ LET r == Record(loggers[p], LvlInfo, EmitDepth(f, loggers[p].depth), "m", <<>>)
       IN  last' = [op |-> f, h |-> p, level |-> r.Level, pooled |-> FALSE,
                    ev |-> <<Ev("Depth", r.Depth), Ev("wrap", w),
                             Ev("stack", AppStack(w) \o Frames(f) \o <<"emitLog", "Valuer">>)>>]
    /\ UNCHANGED <<pvars, dvars, svars, fvars, gvars, wvars>>

NextDepth ==
    \/ \E p \in Shared, k \in {0 - 1, 1} : AddDepthSelf(p, k)
    \/ \E f \in EmitOps, p \in Shared, w \in 0..MaxWrap : EmitAt(f, p, w)

SpecDepth == InitDerive /\ [][NextDepth]_vars

-----------------------------------------------------------------------------
(* Levels and NameToLevel, part_011:157-208.  The application may reset and
   override the names: Levels[lvl] = name *)
LevelKeys == {LvlInfo, LvlInfo + 5}
LevelNames == {<<"o", "k">>, <<"O", "K">>, <<"O", "k">>}
LookupNames == LevelNames \cup {<<"i", "n", "f", "o">>, <<"I", "N", "F", "O">>, <<"n", "o">>, <<>>}

SetLevelName(lvl, name) ==
    /\ Levels' = (lvl :> name) @@ Levels
    /\ UNCHANGED <<originLogger, defaultLogger, wvars>>
    /\ last' = [op |-> "Levels[]=", h |-> 0, level |-> lvl, pooled |-> FALSE,
                ev |-> <<Ev("arg", name)>>]
    /\ UNCHANGED <<pvars, dvars, svars, fvars>>

(* The levels the two loops of NameToLevel may return for name: a range
   over a map visits the keys in any order *)
Named(name) ==
    IF \E k \in DOMAIN Levels : Levels[k] = name
    THEN {k \in DOMAIN Levels : Levels[k] = name}
    ELSE {k \in DOMAIN Levels : Levels[k] = ToUpper(name)}

(* NameToLevel(name, defaultPanic...) *)
NameToLevel(name, defaultPanic, k) ==
    /\ Named(name) # {} => k \in Named(name)
    /\ Named(name) = {} => k = LvlInfo
    /\ last' = [op |-> "NameToLevel", h |-> 0, level |-> k, pooled |-> FALSE,
                ev |-> <<Ev("arg", <<name, defaultPanic>>)>>
                       \o (IF Named(name) = {} /\ defaultPanic
                           THEN <<Ev("panic", "unknown level name")>> ELSE <<>>)]
    /\ UNCHANGED <<pvars, dvars, svars, fvars, gvars, wvars>>

NextLevel ==
    \/ \E lvl \in LevelKeys, name \in LevelNames : SetLevelName(lvl, name)
    \/ \E name \in LookupNames, strict \in BOOLEAN, k \in Predefined \cup LevelKeys :
          NameToLevel(name, strict, k)

SpecLevel == InitDerive /\ [][NextLevel]_vars

-----------------------------------------------------------------------------
(* The default logger, part_013:23-70.  An ExtLogger is a pointer to a
   logger: its place in loggers. *)
GlobalLevels == {LvlInfo, LvlWarn}
GlobalEncoders == {"TextEncoder", "NothingEncoder"}

(* SetDefaultLogger(l), part_013:58-61: the origin is l, the default a clone
   of it one frame deeper, part_009 WithDepth; the clone a former call made is
   garbage *)
SetDefaultLogger(p) ==
    /\ p \in 1..Len(loggers)
    /\ p # defaultLogger
    /\ LET ll == [loggers[p] EXCEPT !.depth = @ + 1, !.parent = p]
       IN  IF defaultLogger = 0
           THEN loggers' = Append(loggers, ll) /\ defaultLogger' = Len(loggers) + 1
           ELSE loggers' = [loggers EXCEPT ![defaultLogger] = ll] /\ UNCHANGED defaultLogger
    /\ originLogger' = p
    /\ last' = [op |-> "SetDefaultLogger", h |-> p, level |-> 0, pooled |-> FALSE, ev |-> <<>>]
    /\ UNCHANGED <<pvars, arrays, svars, fvars, Levels, wvars>>

(* Only the wrapped logger is set *)
OriginOnlySet(ls, attr, x) == [ls EXCEPT ![originLogger][attr] = x]

(* originLoggerWrapper.SetLevel / SetEncoder, part_013:25-32: the wrapped
   logger, then defaultLogger *)
OriginSet(ls, attr, x) == [[ls EXCEPT ![originLogger][attr] = x] EXCEPT ![defaultLogger][attr] = x]

(* GetDefaultLogger().SetLevel(x) and GetDefaultLogger().SetEncoder(x),
   part_013:55: the wrapper is what GetDefaultLogger returns; the package's
   SetLevel(x) and SetEncoder(x), part_013:67-70, call the same methods *)
DefaultSet(op, attr, x) ==
    /\ originLogger # 0
    /\ loggers' = OriginSet(loggers, attr, x)
    /\ last' = [op |-> op, h |-> originLogger, level |-> 0, pooled |-> FALSE,
                ev |-> <<Ev("arg", <<attr, x>>)>>]
    /\ UNCHANGED <<pvars, arrays, svars, fvars, gvars, wvars>>

(* New(name), part_009:64-68: the application makes another logger *)
NewLogger(name) ==
    /\ originLogger # 0
    /\ \A i \in 1..Len(loggers) : loggers[i].name # name
    /\ loggers' = Append(loggers, [Root EXCEPT !.name = name])
    /\ last' = [op |-> "New", h |-> Len(loggers) + 1, level |-> 0, pooled |-> FALSE, ev |-> <<>>]
    /\ UNCHANGED <<pvars, arrays, svars, fvars, gvars, wvars>>

NextGlobal ==
    \/ \E p \in 1..Cardinality(ArgNames) + 2 : SetDefaultLogger(p)
    \/ \E x \in GlobalLevels : DefaultSet("GetDefaultLogger().SetLevel", "level", x)
    \/ \E x \in GlobalLevels : DefaultSet("klog.SetLevel", "level", x)
    \/ \E x \in GlobalEncoders : DefaultSet("GetDefaultLogger().SetEncoder", "encoder", x)
    \/ \E x \in GlobalEncoders : DefaultSet("klog.SetEncoder", "encoder", x)
    \/ \E name \in ArgNames : NewLogger(name)
    \/ \E p \in Shared, x \in ArgLevels : originLogger # 0 /\ SetLevel(p, x)

SpecGlobal == InitDerive /\ [][NextGlobal]_vars

-----------------------------------------------------------------------------
(* Properties *)

(* The operations that end a call chain: Log.Msg, LLog.Levelf, Logger.Levelf *)
TerminalOps == {"Msg", "Levelf", "Logger.Levelf"}

(* Every hook of the logger returns true for (name, level) *)
AllHooksTrue(level) ==
    \A i \in 1..Len(logger.hooks) : Hook(logger.hooks[i], logger.name, level)

(* C1: a record at level L reaches the encoder and the Writer only if every
   hook of the logger returns true for (name, L): one false at any position
   vetoes the record, whatever the later hooks return, through newLog (Log
   values) and through LLog.emit (LLog values and Logger.Levelf). *)
C1_HooksAreAnded ==
    /\ \A i \in 1..Len(last.ev) :
          last.ev[i][1] = "encode" => AllHooksTrue(last.ev[i][2].Level)
    /\ \A i \in 1..Len(last.ev) :
          last.ev[i][1] = "write" => AllHooksTrue(last.ev[i][2])
    /\ \A h \in Handles :
          (handles[h].shape = "Log" /\ handles[h].ok) => AllHooksTrue(handles[h].level)

(* C1 witness: a call chain at an enabled level ended, an earlier hook had
   returned false and a later one true, and nothing was encoded or written *)
C1_Witness ==
    /\ last.op \in TerminalOps
    /\ last.level >= logger.level
    /\ \E i \in 1..Len(logger.hooks), j \in 1..Len(logger.hooks) :
          /\ i < j
          /\ ~Hook(logger.hooks[i], logger.name, last.level)
          /\ Hook(logger.hooks[j], logger.name, last.level)
    /\ ~Has(last.ev, "encode")
    /\ ~Has(last.ev, "write")

(* C2: a record at level lvl is written exactly when lvl >= the logger's
   level (IsEnabled), the hooks allowing: a call chain whose hooks all return
   true writes its record if and only if its level is at least the logger's. *)
C2_LevelThreshold ==
    (last.op \in TerminalOps /\ AllHooksTrue(last.level)) =>
        (Has(last.ev, "write") <=> last.level >= logger.level)

(* C2 witness: a record at exactly the logger's level was written through an
   LLog value, and the logger's level is above the default *)
C2_Witness ==
    /\ last.op = "Levelf"
    /\ last.level = logger.level
    /\ logger.level = LvlWarn
    /\ Has(last.ev, "write")

(* C3: for every call shape, an emission filtered by the level or by a hook
   writes nothing and leaves no field buffer outside fieldPool: every buffer
   taken from fieldPool during the attempt is back in it when the call chain
   has completed. *)
C3_FilteredReturnsBuffers ==
    (last.op \in TerminalOps /\ ~Has(last.ev, "encode")) =>
        /\ ~Has(last.ev, "write")
        /\ \A b \in Picks(last.ev, "getField") : fieldPool[b] > 0
        /\ last.h # 0 =>
              (handles[last.h].arr = 0 \/ fieldPool[handles[last.h].arr] > 0)

(* The gate rejects a record at level level: a hook returns false or the
   level is below the logger's *)
Rejected(level) == ~AllHooksTrue(level) \/ level < logger.level

(* One step on a rejected Log value *)
C4_Step ==
    /\ (last'.op = "Level" /\ Rejected(last'.level)) =>
          /\ ~handles'[last'.h].ok
          /\ handles'[last'.h].arr = 0
          /\ handles'[last'.h].len = 0
          /\ ~Has(last'.ev, "getField")
          /\ UNCHANGED <<heap, fieldPool, builderPool, exited>>
    /\ \A h \in Handles :
          (/\ handles[h].shape = "Log"
           /\ Rejected(handles[h].level)
           /\ last'.op \in {"F", "Msg"}
           /\ last'.h = h) =>
              /\ handles'[h] = handles[h]
              /\ Slice(heap', handles'[h]) = <<>>
              /\ last'.ev = <<>>
              /\ UNCHANGED <<heap, fieldPool, builderPool, exited>>

(* C4: a Log value whose record the gate rejects is inert: newLog takes
   nothing from fieldPool, F / K / V / E leave its field list nil, and Msg /
   Msgf / Print / Printf / Ef call no encoder, no Writer, no pool and no
   terminal action. *)
C4_RejectedLogIsInert == [][C4_Step]_vars

(* C4 witness: Msg was called on a rejected Log value of a logger that has
   context fields, after F had been called on it *)
C4_Witness ==
    /\ last.op = "Msg"
    /\ handles[last.h].shape = "Log"
    /\ Rejected(handles[last.h].level)
    /\ Len(logger.fields) > 0
    /\ fieldPool = [b \in Bufs |-> 0]

(* The keys of the lazy fields *)
LazyKeys == {f.Key : f \in {g \in CtxFields \cup CallFields : g.Value = "Valuer"}}

(* C5: a lazy field value is evaluated zero times when the record is
   filtered out, and exactly once per emitted record, after the gate and
   before the encoder, however many builder calls preceded the terminal one. *)
C5_LazyOncePerRecord ==
    LET evs == last.ev IN
    /\ ~Has(evs, "encode") => ~Has(evs, "valuer")
    /\ Has(evs, "encode") =>
          LET fs == evs[First(evs, "encode")][2].Fields IN
          /\ Count(evs, "valuer") = Cardinality({i \in 1..Len(fs) : fs[i].Key \in LazyKeys})
          /\ \A i \in 1..Len(evs) :
                evs[i][1] = "valuer" =>
                    /\ i < First(evs, "encode")
                    /\ \A j \in 1..Len(evs) : evs[j][1] = "hook" => j < i

(* C6: a field buffer that has been returned to fieldPool is never afterwards
   read, written or returned again through a Log / LLog value that still
   refers to it, whatever the sequence of public operations. *)
C6_NoUseAfterRelease ==
    /\ ~last.pooled
    /\ \A b \in Bufs : fieldPool[b] <= 1

(* The record the last operation handed to the encoder *)
Encoded == last.ev[First(last.ev, "encode")][2]

(* C11: for an emitted record with LvlPanic <= level < LvlFatal, emitLog
   writes the encoded record, then returns the field buffer and the builder
   to their pools, and only then panics; the panic carries the Record with
   the same Msg, Time, Name, Depth and Level and with Fields nil. *)
C11_PanicAfterRelease ==
    LET evs == last.ev IN
    /\ (Has(evs, "encode") /\ last.level >= LvlPanic /\ last.level < LvlFatal) =>
          /\ Count(evs, "panic") = 1
          /\ Count(evs, "putField") = 1
          /\ Count(evs, "putBuilder") = 1
          /\ First(evs, "putField") < First(evs, "panic")
          /\ First(evs, "putBuilder") < First(evs, "panic")
          /\ Has(evs, "write") =>
                (First(evs, "write") < First(evs, "putField")
                 /\ First(evs, "write") < First(evs, "putBuilder"))
          /\ logger.encoder = "TextEncoder" => Has(evs, "write")
          /\ ~Has(evs, "exit") /\ ~Has(evs, "return")
          /\ LET p == evs[First(evs, "panic")][2] IN
             /\ p.Msg = Encoded.Msg /\ p.Time = Encoded.Time /\ p.Name = Encoded.Name
             /\ p.Depth = Encoded.Depth /\ p.Level = Encoded.Level
             /\ p.Level = last.level
             /\ p.Fields = <<>>
    /\ (~Has(evs, "encode") \/ last.level < LvlPanic) => ~Has(evs, "panic")

(* C11 witness: a record with fields was written at the panic level *)
C11_Witness ==
    /\ Has(last.ev, "panic")
    /\ Has(last.ev, "write")
    /\ Len(Encoded.Fields) = MaxCtx + MaxCall

(* The number of buffers in fieldPool *)
PoolTotal(pool) == Cardinality({<<b, i>> \in Bufs \X (1..PoolCap) : i <= pool[b]})

(* One emission returns its buffers once *)
C12_Step ==
    (last'.op \in TerminalOps /\ Has(last'.ev, "encode")) =>
        /\ Count(last'.ev, "putField") = 1
        /\ Count(last'.ev, "putBuilder") = 1
        /\ builderPool' = 1
        /\ last'.h # 0 =>
              fieldPool' = [fieldPool EXCEPT ![handles[last'.h].arr] = @ + 1]
        /\ last'.h = 0 =>
              PoolTotal(fieldPool') = PoolTotal(fieldPool)
                  + (IF \E b \in Picks(last'.ev, "getField") : fieldPool[b] > 0 THEN 0 ELSE 1)

(* C12: emitLog returns the field buffer and the builder to their pools
   exactly once per emission, whether Writer.Write succeeds or returns an
   error. *)
C12_ReleaseOnceAnyway == [][C12_Step]_vars

(* C12 witness: the Writer returned an error for a written record and the
   field buffer is in fieldPool *)
C12_Witness ==
    /\ last.op = "Msg"
    /\ Has(last.ev, "write")
    /\ logger.writer = "Failing"
    /\ Has(last.ev, "return") /\ last.ev[First(last.ev, "return")][2].err
    /\ fieldPool[handles[last.h].arr] = 1

(* C13: when the encoder leaves the builder empty (NothingEncoder) Writer.Write
   is not called and no error is reported; when the builder is not empty
   Write is called exactly once, with the record's level; the pooled
   buffers are released in both cases. *)
C13_EmptyBuilderSkipsWrite ==
    LET evs == last.ev IN
    Has(evs, "encode") =>
        /\ logger.encoder = "NothingEncoder" =>
              /\ ~Has(evs, "write")
              /\ Has(evs, "return") => evs[First(evs, "return")][2] = [n |-> 0, err |-> FALSE]
        /\ logger.encoder = "TextEncoder" =>
              /\ Count(evs, "write") = 1
              /\ evs[First(evs, "write")][2] = last.level
              /\ evs[First(evs, "write")][2] = Encoded.Level
        /\ Count(evs, "putField") = 1
        /\ Count(evs, "putBuilder") = 1

(* C13 witness: NothingEncoder encoded a record of a logger whose Writer
   fails, and the call returned *)
C13_Witness ==
    /\ Has(last.ev, "encode")
    /\ logger.encoder = "NothingEncoder"
    /\ logger.writer = "Failing"
    /\ Has(last.ev, "return")
    /\ ~Has(last.ev, "write")

(* The value the encoder sees for the field f *)
Seen(f) == IF f.Value = "Valuer" THEN [f EXCEPT !.Value = "called"] ELSE f

(* The position of the token t in the bytes bs, 0 when it is not there *)
TokenAt(bs, t) == IF \E i \in 1..Len(bs) : bs[i] = t
                  THEN CHOOSE i \in 1..Len(bs) : bs[i] = t ELSE 0

(* C14: the fields handed to the encoder for an emitted record are exactly
   the logger's context fields in order followed by the call-site fields in
   the order they were appended through the handle, nothing dropped,
   duplicated or reordered; the message is encoded after all fields. *)
C14_FieldOrder ==
    (last.op \in TerminalOps /\ Has(last.ev, "encode")) =>
        LET want == logger.fields \o (IF last.h = 0 THEN <<>> ELSE handles[last.h].app)
            bs == Encode(logger.encoder, Encoded)
        IN  /\ Encoded.Fields = [i \in 1..Len(want) |-> Seen(want[i])]
            /\ \A i \in 1..Len(Encoded.Fields) :
                  TokenAt(bs, Encoded.Fields[i].Key) < TokenAt(bs, "msg=")

(* What either call shape passes on for the fields app appended through the
   handle: the level, the name, the message and the fields *)
SameRecord(level, app) ==
    LET want == logger.fields \o app IN
    /\ Encoded.Level = level
    /\ Encoded.Name = logger.name
    /\ Encoded.Msg = "m"
    /\ Encoded.Fields = [i \in 1..Len(want) |-> Seen(want[i])]
    /\ \A i \in 1..Len(last.ev) : last.ev[i][1] = "write" => last.ev[i][2] = level

(* C15: logger.Level(L, fs...).Msgf(m) and logger.F(fs...).Levelf(L, m) are
   two front-ends of one pipeline: the Log shape emits exactly when the gate
   of the LLog shape passes, the LLog shape exactly when the gate of the Log
   shape passes, and when emitting both pass the encoder a Record with the
   same Level, Name, Msg and fields and the Writer the same level. *)
C15_ShapesAgree ==
    /\ last.op = "Msg" =>
          /\ Has(last.ev, "encode") <=> GateLLog(logger, last.level)
          /\ Has(last.ev, "encode") => SameRecord(last.level, handles[last.h].app)
    /\ last.op = "Levelf" =>
          /\ Has(last.ev, "encode") <=> GateLog(logger, last.level)
          /\ Has(last.ev, "encode") => SameRecord(last.level, handles[last.h].app)
    /\ last.op = "Logger.Levelf" =>
          /\ Has(last.ev, "encode") <=> GateLog(logger, last.level)
          /\ Has(last.ev, "encode") => SameRecord(last.level, <<>>)

(* C15 witness: the LLog shape emitted a record with context and call-site
   fields through a logger that has two hooks *)
C15_Witness ==
    /\ last.op = "Levelf"
    /\ Has(last.ev, "encode")
    /\ Len(logger.hooks) = 2
    /\ handles[last.h].app # <<>>
    /\ Len(Encoded.Fields) > Len(handles[last.h].app)

(* The fields and the hooks a derived logger carries *)
FieldsOf(arrs, l) == Elems(arrs, l.fields)
HooksOf(arrs, l) == Elems(arrs, l.hooks)

(* C7: with siblings A = L.WithField(f) and B = L.WithField(g) (likewise
   WithHook), creating B never changes the fields (hooks) A carries, whatever
   the length and spare capacity of L's slice. *)
C7_SiblingsIndependent ==
    [][\A a \in 1..Len(loggers) :
          (last'.op \in {"WithField", "WithHook"} /\ loggers[a].parent = last'.h) =>
              /\ FieldsOf(arrays', loggers'[a]) = FieldsOf(arrays, loggers[a])
              /\ HooksOf(arrays', loggers'[a]) = HooksOf(arrays, loggers[a])]_vars

(* The ancestors of the logger n, n included *)
RECURSIVE Ancestors(_)
Ancestors(n) == IF n = 0 THEN {} ELSE {n} \cup Ancestors(loggers[n].parent)

(* C8: a logger derived by WithField carries the fields of the logger it is
   derived from followed by the added fields, in order, and the derivation
   leaves the fields of that logger and of its ancestors as they were: the
   grandchild carries a then b, the child a and not b, the parent neither. *)
C8_DerivedChain ==
    [][last'.op = "WithField" =>
          LET n == Len(loggers') IN
          /\ n = Len(loggers) + 1
          /\ loggers'[n].parent = last'.h
          /\ FieldsOf(arrays', loggers'[n]) = FieldsOf(arrays, loggers[last'.h]) \o last'.ev
          /\ HooksOf(arrays', loggers'[n]) = HooksOf(arrays, loggers[last'.h])
          /\ \A a \in Ancestors(last'.h) :
                FieldsOf(arrays', loggers'[a]) = FieldsOf(arrays, loggers[a])]_vars

(* C8 witness: the grandchild of a logger with fields was derived with one
   field from a child derived with one field, within the capacity the child's
   slice had left *)
C8_Witness ==
    /\ last.op = "WithField"
    /\ Len(last.ev) = 1
    /\ LET g == loggers[Len(loggers)]
           c == loggers[g.parent]
       IN  /\ c.parent # 0
           /\ g.fields.arr = c.fields.arr
           /\ c.fields.len = loggers[c.parent].fields.len + 1
           /\ loggers[c.parent].fields.len > 0
           /\ FieldsOf(arrays, g) = FieldsOf(arrays, c) \o last.ev

(* The attributes of a Logger besides its slices, and what it presents to an
   emission *)
Attrs == {"name", "depth", "level", "writer", "encoder"}
Config(arrs, l) ==
    [name |-> l.name, depth |-> l.depth, level |-> l.level, writer |-> l.writer,
     encoder |-> l.encoder, fields |-> FieldsOf(arrs, l), hooks |-> HooksOf(arrs, l)]

WithOps == {"WithName", "WithDepth", "WithLevel", "WithWriter", "WithEncoder"}
SetOps == {"SetName", "SetDepth", "SetLevel", "SetWriter", "SetEncoder"}
AttrOf(op) ==
    IF op \in {"WithName", "SetName"} THEN "name"
    ELSE IF op \in {"WithDepth", "SetDepth"} THEN "depth"
    ELSE IF op \in {"WithLevel", "SetLevel"} THEN "level"
    ELSE IF op \in {"WithWriter", "SetWriter"} THEN "writer"
    ELSE "encoder"

(* C16 as stated: a Logger's configuration is never mutated in place after
   construction: every Logger presents, after any configuration call, the
   configuration it had before. *)
C16_NeverMutated ==
    [][\A a \in 1..Len(loggers) :
          Config(arrays', loggers'[a]) = Config(arrays, loggers[a])]_vars

(* C16 amended: WithName, WithDepth, WithLevel, WithWriter and WithEncoder
   leave the configuration of every existing Logger as it was; SetName,
   SetDepth, SetLevel, SetWriter, SetEncoder and AddField change the Logger
   they are called on in place, and a Set* call changes no other Logger. *)
C16_WithCopiesSetMutates ==
    [][/\ last'.op \in WithOps =>
             \A a \in 1..Len(loggers) :
                Config(arrays', loggers'[a]) = Config(arrays, loggers[a])
       /\ (last'.op \in SetOps /\ ~Has(last'.ev, "panic")) =>
             /\ Len(loggers') = Len(loggers)
             /\ loggers'[last'.h][AttrOf(last'.op)] = last'.ev[1][2][2]
             /\ \A a \in 1..Len(loggers) :
                   a # last'.h => Config(arrays', loggers'[a]) = Config(arrays, loggers[a])
       /\ last'.op = "AddField" =>
             /\ Len(loggers') = Len(loggers)
             /\ FieldsOf(arrays', loggers'[last'.h])
                   = FieldsOf(arrays, loggers[last'.h]) \o last'.ev]_vars

(* C16 witness: SetLevel changed the level of a Logger from which a copy had
   been derived, and the copy kept its level *)
C16_Witness ==
    /\ last.op = "SetLevel"
    /\ ~Has(last.ev, "panic")
    /\ Len(loggers) = 2
    /\ loggers[2].parent = 1
    /\ loggers[1].level = LvlInfo
    /\ loggers[2].level = LvlDebug

(* The argument the checks of With* / Set* refuse *)
Refused(attr, x) ==
    IF attr \in {"depth", "level"} THEN x < 0
    ELSE IF attr \in {"writer", "encoder"} THEN x = "nil"
    ELSE FALSE

(* C17: WithDepth / SetDepth with a negative depth, WithLevel / SetLevel
   with a negative level, WithWriter / SetWriter with nil and WithEncoder /
   SetEncoder with nil each panic; then no derived Logger is produced and the
   receiver's configuration is unchanged. *)
C17_InvalidArgumentPanics ==
    [][(last'.op \in WithOps \cup SetOps) =>
          LET attr == last'.ev[1][2][1]
              x == last'.ev[1][2][2]
          IN  /\ attr = AttrOf(last'.op)
              /\ Refused(attr, x) =>
                    /\ Has(last'.ev, "panic")
                    /\ loggers' = loggers
                    /\ arrays' = arrays
              /\ ~Refused(attr, x) => ~Has(last'.ev, "panic")]_vars

(* C17 witness: SetWriter(nil) panicked on a Logger whose writer had been set
   before, after a copy had been derived *)
C17_Witness ==
    /\ last.op = "SetWriter"
    /\ Has(last.ev, "panic")
    /\ Len(loggers) = 2
    /\ loggers[1].writer = "Failing"

(* C18 as stated: the Logger New returns has the most verbose predefined
   level as its level, so that a record at every predefined level, TRACE
   included, is enabled, the text encoder and depth 0. *)
C18_NewMostVerbose ==
    (last.op = "New" /\ Len(loggers) = 1) =>
        /\ \A lvl \in Predefined : IsEnabled(loggers[1], lvl)
        /\ loggers[1].encoder = "TextEncoder"
        /\ loggers[1].depth = 0

(* C18 amended: the Logger New returns has the level LvlDebug, so that a
   record at every predefined level except TRACE is enabled, the text
   encoder and depth 0. *)
C18_NewDefaults ==
    (last.op = "New" /\ Len(loggers) = 1) =>
        /\ loggers[1].level = LvlDebug
        /\ \A lvl \in Predefined : IsEnabled(loggers[1], lvl) <=> lvl # LvlTrace
        /\ loggers[1].encoder = "TextEncoder"
        /\ loggers[1].depth = 0

(* C18 witness: New has returned and nothing has been called on the Logger *)
C18_Witness ==
    /\ last.op = "New"
    /\ Len(loggers) = 1
    /\ loggers[1].parent = 0
    /\ arrays = <<>>

(* C19: WithName, WithLevel, WithWriter, WithEncoder and WithDepth each
   return a Logger that has the argument as the one named attribute and
   equals the receiver in all others, and leave the receiver unchanged. *)
C19_WithChangesOneAttribute ==
    [][(last'.op \in WithOps /\ ~Has(last'.ev, "panic")) =>
          LET n == Len(loggers')
              p == last'.h
              x == last'.ev[1][2][2]
          IN  /\ n = Len(loggers) + 1
              /\ \A a \in Attrs :
                    loggers'[n][a] = (IF a = AttrOf(last'.op) THEN x ELSE loggers[p][a])
              /\ loggers'[n].fields = loggers[p].fields
              /\ loggers'[n].hooks = loggers[p].hooks
              /\ arrays' = arrays
              /\ \A a \in 1..Len(loggers) : loggers'[a] = loggers[a]]_vars

(* C19 witness: WithLevel derived a Logger from a receiver whose name, writer
   and fields had been set before *)
C19_Witness ==
    /\ last.op = "WithLevel"
    /\ ~Has(last.ev, "panic")
    /\ Len(loggers) = 2
    /\ loggers[1].name = "app" /\ loggers[2].name = "app"
    /\ loggers[1].writer = "Failing" /\ loggers[2].writer = "Failing"
    /\ loggers[1].fields.len > 0
    /\ loggers[1].level = LvlDebug /\ loggers[2].level = LvlInfo

(* The goroutines inside the wrapped Writer's Write *)
Writing == {g \in Goroutines : pc[g] = "writing"}

(* C9: through SafeWriter(w) at most one w.Write is in progress at any time,
   and when N goroutines have each emitted M records w has received exactly
   N*M Write calls, each one complete record with no part of another inside. *)
C9_SafeWriterSerializes ==
    /\ Cardinality(Writing) <= 1
    /\ \A i \in 1..Len(sink) :
          /\ sink[i][3] = (IF i % 2 = 1 THEN "begin" ELSE "end")
          /\ i % 2 = 0 => (sink[i][1] = sink[i-1][1] /\ sink[i][2] = sink[i-1][2])
    /\ \A i \in 1..Len(sink), j \in 1..Len(sink) :
          (i # j /\ sink[i][3] = "begin" /\ sink[j][3] = "begin") =>
              <<sink[i][1], sink[i][2]>> # <<sink[j][1], sink[j][2]>>
    /\ (pc # <<>> /\ \A g \in Goroutines : pc[g] = "idle" /\ written[g] = MaxRecords) =>
          Len(sink) = 2 * MaxGoroutines * MaxRecords

(* C9 witness: every goroutine has written all its records, and the records
   of two goroutines alternate in what the Writer received *)
C9_Witness ==
    /\ pc # <<>>
    /\ \A g \in Goroutines : pc[g] = "idle" /\ written[g] = MaxRecords
    /\ \E i \in 1..Len(sink) : i + 4 <= Len(sink) /\ sink[i][1] # sink[i+2][1]
                                 /\ sink[i+2][1] # sink[i+4][1]

(* The registered exit functions that are not nil, in registration order *)
NonNilCleaners == SelectSeq(cleaners, LAMBDA c : c # "nil")

(* C10: a record at the fatal level that passes the gate has every
   registered non-nil exit function called exactly once, in registration
   order, after the record went to the Writer and before the process
   terminates; no exit function is called for a record below the fatal level. *)
C10_ExitHooksOnFatal ==
    LET evs == last.ev IN
    /\ (Has(evs, "encode") /\ last.level >= LvlFatal) =>
          /\ SelectEv(evs, "clean") = NonNilCleaners
          /\ Count(evs, "write") = 1
          /\ Count(evs, "exit") = 1
          /\ exited
          /\ \A i \in 1..Len(evs) :
                evs[i][1] = "clean" =>
                    First(evs, "write") < i /\ i < First(evs, "exit")
          /\ First(evs, "write") < First(evs, "exit")
    /\ (~Has(evs, "encode") \/ last.level < LvlFatal) =>
          ~Has(evs, "clean") /\ ~Has(evs, "exit")

(* C10 witness: a fatal record ended the process with two different exit
   functions registered *)
C10_Witness ==
    /\ Has(last.ev, "exit")
    /\ Len(cleaners) = 2
    /\ cleaners[1] # "nil" /\ cleaners[2] # "nil" /\ cleaners[1] # cleaners[2]
    /\ Count(last.ev, "clean") = 2

(* C20: Release puts the slice, truncated to length 0, into the pool that
   matches the slice's current capacity (4, 8, 16 or 32), so that a slice of
   the 8-, 16- or 32-element class is in the pool a later NewFieldBuilder of
   that class takes from. *)
C20_ReleaseByCapacity ==
    last.op = "Release" =>
        LET pool == last.ev[1][2][1]
            cap == last.ev[1][2][2]
        IN  /\ pool = FBPoolFor(cap)
            /\ \E i \in 1..Len(fbPool[FBPoolFor(cap)]) :
                  fbPool[FBPoolFor(cap)][i] = [cap |-> cap, len |-> 0]

(* The library's functions between the application and the terminal method
   of an emission through f *)
WrapperFrames(f) ==
    IF f \in {"klog.Infof", "klog.Lf", "klog.Ef"} THEN 2
    ELSE IF f \in {"Log.Print", "Log.Printf", "Log.Ef", "LLog.Ef",
                   "Logger.Infof", "Logger.Lf", "Logger.Ef"} THEN 1
    ELSE 0

(* C21: on every emission path the Record.Depth the lazy resolvers receive is
   the Logger's configured depth plus the number of library wrapper frames
   plus 3, so that stack.Caller(Depth+1) in a resolver designates the
   application's frame when the configured depth counts the application's
   own wrapping functions. *)
C21_DepthDesignatesCaller ==
    last.op \in EmitOps =>
        LET Depth == last.ev[1][2]
            w == last.ev[2][2]
            st == last.ev[3][2]
        IN  /\ Depth = loggers[last.h].depth + WrapperFrames(last.op) + 3
            /\ loggers[last.h].depth = w => StackCaller(st, Depth + 1) = "caller"

(* C22: emitLog returns the (n, err) of Writer.Write, or (0, nil) when the
   encoder produced no bytes; loggerWriter.Write returns that pair to its
   caller, and (0, nil) without encoding or writing when the gate rejects the
   record; the Log and LLog terminal methods return nothing. *)
C22_WriteResultPropagated ==
    LET evs == last.ev
        made == IF Has(evs, "write")
                THEN WriterWrite(logger.writer, last.level, Encode(logger.encoder, Encoded))
                ELSE [n |-> 0, err |-> FALSE]
    IN  /\ Has(evs, "return") => evs[First(evs, "return")][2] = made
        /\ last.op = "loggerWriter.Write" =>
              IF GateLog(logger, last.level)
              THEN /\ Has(evs, "encode")
                   /\ Count(evs, "result") = Count(evs, "return")
                   /\ Has(evs, "result") => evs[First(evs, "result")][2] = made
              ELSE /\ ~Has(evs, "encode") /\ ~Has(evs, "write")
                   /\ Count(evs, "result") = 1
                   /\ evs[First(evs, "result")][2] = [n |-> 0, err |-> FALSE]
        /\ last.op \in {"Msg", "Levelf", "Logger.Levelf"} => ~Has(evs, "result")

(* C22 witness: loggerWriter.Write returned the error of a failing Writer *)
C22_Witness ==
    /\ last.op = "loggerWriter.Write"
    /\ logger.writer = "Failing"
    /\ Has(last.ev, "write")
    /\ Has(last.ev, "result")
    /\ last.ev[First(last.ev, "result")][2].err

(* C23: during the termination of a fatal record the exit functions are
   best-effort: when one of them panics, every exit function registered
   after it is still called, and the process then terminates. *)
C23_ExitHooksBestEffort ==
    LET evs == last.ev IN
    (Has(evs, "encode") /\ last.level >= LvlFatal) =>
        /\ SelectEv(evs, "clean") = NonNilCleaners
        /\ Has(evs, "exit")

(* C24: NameToLevel(name) matches name against every name registered in
   Levels without regard to letter case, whatever the case the name was
   registered in; when no name matches it returns LvlInfo, or panics when
   the strict flag is passed. *)
C24_NameToLevelIgnoresCase ==
    last.op = "NameToLevel" =>
        LET name == last.ev[1][2][1]
            strict == last.ev[1][2][2]
            matches == {k \in DOMAIN Levels : ToUpper(Levels[k]) = ToUpper(name)}
        IN  IF matches # {}
            THEN last.level \in matches /\ ~Has(last.ev, "panic")
            ELSE IF strict THEN Has(last.ev, "panic")
                 ELSE last.level = LvlInfo /\ ~Has(last.ev, "panic")

(* C25: after SetDefaultLogger(l), a change of the level or of the encoder
   through GetDefaultLogger() or through the package's SetLevel / SetEncoder
   leaves the origin logger and the depth-adjusted default logger of the
   package functions both with the new level (encoder), after every sequence
   of such calls. *)
C25_DefaultLoggersAgree ==
    [][last'.op \in {"GetDefaultLogger().SetLevel", "klog.SetLevel",
                     "GetDefaultLogger().SetEncoder", "klog.SetEncoder"} =>
          LET attr == last'.ev[1][2][1]
              x == last'.ev[1][2][2]
          IN  /\ originLogger' # defaultLogger'
              /\ loggers'[originLogger'][attr] = x
              /\ loggers'[defaultLogger'][attr] = x
              /\ loggers'[defaultLogger'].depth = loggers'[originLogger'].depth + 1]_vars

(* C25 witness: the package's SetLevel brought the two loggers to one level
   after the origin had been given another level directly and the encoder
   had been changed through GetDefaultLogger() *)
C25_Witness ==
    /\ last.op = "klog.SetLevel"
    /\ originLogger = 1
    /\ loggers[originLogger].level = LvlWarn
    /\ loggers[defaultLogger].level = LvlWarn
    /\ loggers[originLogger].encoder = "NothingEncoder"
    /\ loggers[defaultLogger].encoder = "NothingEncoder"
    /\ Len(loggers) = 3

(* The hook names the logger out: DisableLogger with the logger's name among
   its names, EnableLogger without it *)
NamedOut(hook) ==
    \/ hook.kind = "DisableLogger" /\ logger.name \in hook.names
    \/ hook.kind = "EnableLogger" /\ logger.name \notin hook.names

(* C26: with DisableLogger(names) attached a logger whose name is among the
   names emits nothing at any level and a logger of another name emits as it
   would without the hook; with EnableLogger(names) attached only a logger
   whose name is among the names emits. *)
C26_NamedLoggerHooks ==
    last.op \in TerminalOps =>
        IF \E i \in 1..Len(logger.hooks) : NamedOut(logger.hooks[i])
        THEN ~Has(last.ev, "encode") /\ ~Has(last.ev, "write")
        ELSE Has(last.ev, "write") <=> last.level >= logger.level

(* C26 witness: a logger named debugmod with EnableLogger("debugmod") and a
   logger of another name with DisableLogger("debugmod") wrote a record *)
C26_Witness ==
    /\ last.op \in TerminalOps
    /\ Has(last.ev, "write")
    /\ Len(logger.hooks) = 1
    /\ \/ logger.hooks[1].kind = "EnableLogger" /\ logger.name = "debugmod"
       \/ logger.hooks[1].kind = "DisableLogger" /\ logger.name = ""
    /\ logger.level = LvlWarn

(* C27: with one terminal call per handle, under every interleaving of the
   goroutines' emissions a backing array is never held by two emissions in
   flight and never both in fieldPool and held: it waits in the pool once or
   has one holder, and every record is encoded from its own emission's fields *)
C27_BufferExclusive ==
    /\ \A b \in PoolBufs : Cardinality(Holders(b)) + fieldPool[b] <= 1
    /\ \A i \in DOMAIN sink :
           \A j \in DOMAIN sink[i][2] : sink[i][2][j] = <<sink[i][1], "value">>
(* every goroutine has an emission in flight, one past its encoder, while
   another array waits in the pool and an earlier record is written *)
C27_Witness ==
    /\ \A g \in Goroutines : pc[g].arr # 0
    /\ \E g \in Goroutines : \E i \in DOMAIN sink : sink[i][1] # g /\ pc[g].at = "encoded"
    /\ \E b \in PoolBufs : fieldPool[b] = 1

(* C28: one call of Log.Msgf on a handle that passed the gate produces one
   record, whatever the number of format arguments, zero included: the
   encoder is called once, the Writer once, and the field buffer is put back
   into fieldPool once *)
C28_MsgfEmitsOnce ==
    (last.op = "Msgf" /\ handles[last.h].ok) =>
        /\ Count(last.ev, "encode") = 1
        /\ Count(last.ev, "write") = 1
        /\ Count(last.ev, "putField") = 1

(* C29: under every interleaving of concurrent Manager.GetLogger calls, all
   the calls with one name return the same *Logger, at most one Logger is
   created for a name, and the loggers map is never written by one goroutine
   while another goroutine reads or writes it *)
C29_GetLoggerOncePerName ==
    /\ \A n \in ManagerNames : Cardinality(sink[n]) <= 1
    /\ \A n \in ManagerNames : Cardinality({i \in DOMAIN heap : heap[i].name = n}) <= 1
    /\ \A g \in Goroutines : pc[g].at = "store" => ~Racing(g)
    /\ ~exited

(* C30: an emission stores the values of the lazy fields only into its own
   pooled copy of the fields and never into the logger's context-field slice:
   every context field bound as a Valuer is still a Valuer in every logger
   after any emission, and each emission of a logger, or of a logger derived
   from it, calls every one of its Valuers again and encodes the values *)
C30_LazyContextKept ==
    /\ \A p \in DOMAIN loggers :
           \A i \in 1..loggers[p].fields.len : IsValuer(Elems(arrays, loggers[p].fields)[i])
    /\ last.op = "Emit" =>
           LET fs == Elems(arrays, loggers[last.h].fields) IN
           /\ SelectEv(last.ev, "valuer") = fs
           /\ last.ev[First(last.ev, "encode")][2] = [i \in 1..Len(fs) |-> Called(fs[i])]
(* a logger with lazy fields emits after the logger it was derived from, which
   has lazy fields too, has emitted *)
C30_Witness ==
    /\ last.op = "Emit"
    /\ Len(sink) = 2
    /\ loggers[sink[2]].parent = sink[1]
    /\ loggers[sink[1]].fields.len > 0
    /\ loggers[sink[2]].fields.arr = loggers[sink[1]].fields.arr

(* C31: in ExtLogger.Log every enabled record whose level is LvlFatal or
   above it, a custom level included, runs the CallOnExit functions and then
   terminates the process *)
C31_FatalOrAboveExits ==
    (last.op = "ExtLogger.Log" /\ Has(last.ev, "encode") /\ last.level >= LvlFatal) =>
        /\ SelectEv(last.ev, "clean") = NonNilCleaners
        /\ Has(last.ev, "exit")
        /\ exited

(* C32: in every Logger the depth and the level are non-negative, whatever
   calls of New, With*, Set*, AddDepth and AddDepthSelf that did not panic
   made it *)
C32_DepthLevelNonNegative ==
    \A p \in DOMAIN loggers : loggers[p].depth >= 0 /\ loggers[p].level >= 0

(* The number of times the i-th hook of the logger was called in evs *)
HookCalls(evs, i) == Cardinality({j \in 1..Len(evs) : evs[j] = Ev("hook", i)})

(* C33: each hook of a logger is called at most once in an emission attempt
   and exactly once for every record that is written, through Log values,
   LLog values, Logger.Levelf and ToWriter's Write; whether an earlier hook
   vetoes does not change how often a later one is called. A Log value has its
   hooks called by newLog, so a record written by Msg has had them called once
   only when it is the first record of its Log value, the buffer not yet
   released. *)
C33_HooksOncePerRecord ==
    LET evs == last.ev
        hooks == 1..Len(logger.hooks)
    IN  /\ \A i \in hooks : HookCalls(evs, i) <= 1
        /\ Has(evs, "hook") => \A i \in hooks : HookCalls(evs, i) = 1
        /\ last.op = "Level" => \A i \in hooks : HookCalls(evs, i) = 1
        /\ (last.op \in {"Levelf", "Logger.Levelf", "loggerWriter.Write"} /\ Has(evs, "write")) =>
               \A i \in hooks : HookCalls(evs, i) = 1
        /\ (last.op = "Msg" /\ Has(evs, "write")) => ~last.pooled

(* C34: a SizedRotatingFile with backupCount > 0 that its caller has not
   closed has its file open again whenever the rollover inside Write returned
   nil: the Write stores its data and returns no error, and so do the later
   Writes; a record longer than maxSize written to an empty log file does not
   leave the writer closed *)
C34_RolloverReopens ==
    (last.op = "SizedRotatingFile.Write" /\ rotating.backupCount > 0 /\ ~rotating.closed) =>
        /\ rotating.file = "open"
        /\ last.ev[First(last.ev, "result")][2].err = "nil"
        /\ rotating.files[0].exists
        /\ rotating.files[0].data # <<>>
        /\ rotating.files[0].data[Len(rotating.files[0].data)] = last.ev[First(last.ev, "data")][2]

(* The numbers of the Write calls whose data the file holds *)
WritesIn(file) == {file.data[j][1] : j \in DOMAIN file.data}

(* C35: with backupCount = k > 0 the only backups are filename.1 ..
   filename.k, the newer data in the lower number; each rollover makes every
   existing filename.i the new filename.(i+1) for i from k-1 down to 1, the
   old filename.k being lost, makes the log file the new filename.1, and opens
   an empty log file with the byte counter at 0, to which the data is then
   written *)
C35_BackupsShift ==
    [][LET k == rotating.backupCount
           old == rotating.files
           new == rotating'.files
       IN  /\ \A i \in FileIdx : i > k => ~new[i].exists
           /\ \A i \in FileIdx, j \in FileIdx :
                 (i < j /\ new[i].exists /\ new[j].exists) =>
                     \A a \in WritesIn(new[i]), b \in WritesIn(new[j]) : b < a
           /\ (last'.op = "SizedRotatingFile.Write" /\ Has(last'.ev, "doRollover")) =>
                 /\ \A i \in 1..(k - 1) : old[i].exists => new[i + 1] = old[i]
                 /\ new[1] = old[0]
                 /\ new[0] = [exists |-> TRUE, data |-> <<last'.ev[First(last'.ev, "data")][2]>>]
                 /\ rotating'.nbytes = FileSize(new[0].data)]_vars

(* The writers the call called, in order, what it was called with and what
   it returned *)
CalledOuts(e) == SelectEv(last.ev, e)
Result == last.ev[First(last.ev, "result")][2]
OutsOf == last.ev[First(last.ev, "outs")][2]
DataOf == last.ev[First(last.ev, "data")][2]
WriteFails(i) == ~IsNilError(OutWrite(OutsOf[i], DataOf).err)

(* C36: MultiWriter(outs...).Write calls Write of every wrapped writer once,
   in order, also after one of them failed, and returns an error that is not
   nil if and only if a wrapped Write returned an error; the same for Close *)
C36_MultiWriterAllAndErrors ==
    /\ last.op = "MultiWriter.Write" =>
          /\ CalledOuts("write") = [i \in DOMAIN OutsOf |-> i]
          /\ ~IsNilError(Result.err) <=> \E i \in DOMAIN OutsOf : WriteFails(i)
    /\ last.op = "MultiWriter.Close" =>
          /\ CalledOuts("close") = [i \in DOMAIN OutsOf |-> i]
          /\ ~IsNilError(Result.err) <=>
                \E i \in DOMAIN OutsOf : ~IsNilError(OutClose(OutsOf[i]))

(* C37: FailoverWriter(outs...).Write calls the writers in the given order and
   stops at the first whose Write returns no error: no writer after it is
   called, the result is that writer's (n, nil), and the error of the last
   writer is returned only when every writer failed *)
C37_FailoverStopsAtFirstSuccess ==
    last.op = "FailoverWriter.Write" =>
        LET tried == CalledOuts("write") IN
        /\ \E j \in 0..Len(OutsOf) : tried = [i \in 1..j |-> i]
        /\ \A i \in DOMAIN tried : i < Len(tried) => WriteFails(i)
        /\ (\E i \in DOMAIN OutsOf : ~WriteFails(i)) =>
              /\ ~WriteFails(Len(tried))
              /\ Result = [n |-> OutWrite(OutsOf[Len(tried)], DataOf).n, err |-> NilError]
        /\ ~IsNilError(Result.err) =>
              /\ \A i \in DOMAIN OutsOf : WriteFails(i)
              /\ tried = [i \in DOMAIN OutsOf |-> i]
              /\ Result = OutWrite(OutsOf[Len(OutsOf)], DataOf)
(* the first writer failed, the second took the record, a third was not called *)
C37_Witness ==
    /\ last.op = "FailoverWriter.Write"
    /\ OutsOf = <<"short", "ok", "ok">>
    /\ CalledOuts("write") = <<1, 2>>
    /\ Result = [n |-> DataOf, err |-> NilError]

(* C39: FromWriter(w).Close() terminates: it calls w.Close() once and returns
   what that returned *)
C39_IoWriterCloseReturns ==
    (closing > 0) ~> (closing = 0 /\ last.op = "ioWriter.Close"
                      /\ CalledOuts("close") = <<1>> /\ Has(last.ev, "result"))

(* C38: once Close was called on a ReopenWriter, every later Write returns an
   error, calls the factory no more and writes to no underlying writer,
   whatever came before the Close: no Write, a factory that returned a nil
   reopen channel, or a reopen that failed *)
C38_ClosedStaysClosed ==
    (last.op = "ReopenWriter.Write" /\ reopener.closed) =>
        /\ Result.err # "nil"
        /\ ~Has(last.ev, "factory")
        /\ ~Has(last.ev, "write")

====
